---- MODULE Spec2Model ----
(***************************************************************************)
(* Model of the Ashen Edge build script (build.py): the sprite and map     *)
(* compression engine and the fixed-format decoder that reads its output.  *)
(*                                                                         *)
(* Each component is a small state machine: the initial state draws the    *)
(* component's input from a bounded set, and one action per operation      *)
(* (encode, decode, select, ...) applies the operation as the source       *)
(* computes it.  Byte buffers are sequences of numbers 0..255; a Python    *)
(* `for` loop is an iterated step function over the loop's state.          *)
(***************************************************************************)
EXTENDS Integers, Sequences, FiniteSets, TLC

VARIABLES
    pc,         \* position of the component under verification
    bpp,        \* bits per pixel handed to the codec
    pixels,     \* RunLengthCodec input: pixel sequence
    out,        \* RunLengthCodec output: encoded bytes
    buf,        \* decoder output buffer (1-based, as in the Lua decoder)
    off,        \* decoder read offset after decoding (0-based into `out`)
    base_pixels,    \* SparseDeltaCodec input: the keyframe pixels
    frame_pixels,   \* SparseDeltaCodec input: the frame to reach
    delta,          \* SparseDeltaCodec output: encoded bytes
    dbuf,           \* copy of base the decoder applies the delta to
    frames,     \* AnimationEncoder input: the animation's frames
    fw,         \* frame width
    fh,         \* frame height
    anim,       \* what encode_animation computed: bpp, palette, both candidates, block
    decoded,    \* the decoder's frames, each drawn on an fw x fh canvas
    cell_grid,  \* MapLayerEncoder input: rows of cell bytes
    map_w,      \* grid width
    map_h,      \* grid height
    layer,      \* what encode_layer computed: the three encodings, mode, data
    expanded,   \* the grid a periodic-tiling payload expands to
    BAND_COLORS,    \* module-level colour of each luminance band (rebound by build_level_data)
    sheet,          \* main tileset image: its 16x16 tiles in row-major order
    bg_sheet,       \* BG tileset image: its 16x16 tiles in row-major order
    tileset,        \* result of slice_tileset()
    bg_tileset,     \* result of slice_bg_tileset()
    map_data,       \* level read by read_level_json
    level,          \* what build_level_data computed
    kf_frames,      \* KeyframeSelector input: the cropped frames of an animation
    candidates,     \* result of pick_keyframes_candidates
    kf_keys,        \* key_indices: the candidate encode_type0's loop is at
    kf_kd,          \* what encode_kd_with_keys computed for kf_keys
    char_chunk,     \* build_cart: the animation chunk bound for sprite memory
    cart_map,       \* build_cart: the map section returned by build_level_data
    gfx_buf,        \* build_cart: the sprite memory image
    gfx,            \* __gfx__ text: rows of hex digits
    map_hex,        \* __map__ text: rows of hex digits
    cart_log,       \* overflow messages printed so far
    rt_pool,        \* build_level_data: rt_tiles, base_rt, rot90_rt, rt_tile_flags
    pool_calls,     \* the add_tile_variant calls made so far, oldest first
    lua_src,        \* minify: the Lua source text, a sequence of characters
    lua_out         \* what remove_semicolons returned

rleVars   == <<bpp, pixels, out, buf, off>>
deltaVars == <<base_pixels, frame_pixels, delta, dbuf>>
animVars  == <<frames, fw, fh, anim, decoded>>
layerVars == <<cell_grid, map_w, map_h, layer, expanded>>
tileVars  == <<BAND_COLORS, sheet, bg_sheet, tileset, bg_tileset, map_data, level>>
keyVars   == <<kf_frames, candidates, kf_keys, kf_kd>>
cartVars  == <<char_chunk, cart_map, gfx_buf, gfx, map_hex, cart_log>>
poolVars  == <<rt_pool, pool_calls>>
minVars   == <<lua_src, lua_out>>
vars == <<pc, rleVars, deltaVars, animVars, layerVars, tileVars, keyVars, cartVars,
          poolVars, minVars>>

RleIdle   == bpp = 0 /\ pixels = <<>> /\ out = <<>> /\ buf = <<>> /\ off = 0
DeltaIdle == base_pixels = <<>> /\ frame_pixels = <<>> /\ delta = <<>> /\ dbuf = <<>>
AnimIdle  == frames = <<>> /\ fw = 0 /\ fh = 0 /\ anim = <<>> /\ decoded = <<>>
TileIdle ==
    /\ BAND_COLORS = <<>> /\ sheet = <<>> /\ bg_sheet = <<>> /\ tileset = <<>>
    /\ bg_tileset = <<>> /\ map_data = <<>> /\ level = <<>>
LayerIdle ==
    cell_grid = <<>> /\ map_w = 0 /\ map_h = 0 /\ layer = <<>> /\ expanded = <<>>
KeyIdle ==
    kf_frames = <<>> /\ candidates = <<>> /\ kf_keys = <<>> /\ kf_kd = <<>>
CartIdle ==
    /\ char_chunk = <<>> /\ cart_map = <<>> /\ gfx_buf = <<>> /\ gfx = <<>>
    /\ map_hex = <<>> /\ cart_log = {}
PoolIdle == rt_pool = <<>> /\ pool_calls = <<>>
MinIdle  == lua_src = <<>> /\ lua_out = <<>>

-----------------------------------------------------------------------------
(* Bounds of the model *)

\* longest exhaustively enumerated pixel sequence
MaxLen == 3
\* most runs in a run-built pixel sequence
MaxRuns == 2
\* most gaps (differences after the first) in a gap-built frame
MaxGaps == 2
\* most frames in an enumerated animation
MaxFrames == 2
\* largest cell byte of the enumerated grids and tiling patterns
MaxCell == 2
\* width of the enumerated level maps, in cells
MaxMapW == 2

-----------------------------------------------------------------------------
(* Program constants *)

\* transparency colour index
TRANS == 14
\* side of a tile in pixels
TILE_SIZE == 16
\* luminance bands (lo, hi) and the value BAND_COLORS has when the module is loaded
BAND_RANGES == <<<<0, 20>>, <<21, 45>>, <<46, 100>>, <<101, 185>>, <<186, 255>>>>
BAND_COLORS_default == <<0, 5, 13, 6, 7>>

\* tile budgets of build_level_data: sprite-sheet tiles, highest Main pool id,
\* user-memory bytes for BG tiles, bytes of the map region
SPRITE_SHEET_TILES == 64
MAIN_RT_LIMIT == 63
BG_USER_MEMORY == 7424
MAP_REGION_BYTES == 4096

-----------------------------------------------------------------------------
(* Helpers for byte arithmetic *)

Min(a, b) == IF a < b THEN a ELSE b
Max(a, b) == IF a > b THEN a ELSE b

RECURSIVE Pow2(_)
Pow2(n) == IF n = 0 THEN 1 ELSE 2 * Pow2(n - 1)

\* a sequence given as a function, as an explicit tuple (the same value)
Tup(s) == s \o <<>>

\* n copies of v
Rep(v, n) == Tup([i \in 1..n |-> v])

\* peek(a): one byte of memory; the block under test is loaded at address 0,
\* memory outside it reads 0
peek(mem, a) == IF a >= 0 /\ a < Len(mem) THEN mem[a + 1] ELSE 0

pk2(mem, a) == peek(mem, a) + 256 * peek(mem, a + 1)

-----------------------------------------------------------------------------
(* RunLengthCodec: ext_nibble_rle_encode and the decoder decode_rle *)

\* emit with the escape extension computed one too large (count - run_mask)
RECURSIVE emit_ext_off_by_one(_, _, _, _)
emit_ext_off_by_one(o, color, count, b) ==
    LET run_bits == 8 - b
        run_mask == Pow2(run_bits) - 1
    IN  IF count <= 0 THEN o
        ELSE IF count <= run_mask
             THEN Append(o, color * Pow2(run_bits) + (count - 1))
             ELSE LET ext == Min(count - run_mask, 255)
                  IN  emit_ext_off_by_one(
                           o \o <<color * Pow2(run_bits) + run_mask, ext>>,
                           color, count - (run_mask + 1 + ext), b)

\* inner function emit(color, count) of ext_nibble_rle_encode: the while loop
RECURSIVE emit(_, _, _, _)
emit(o, color, count, b) ==
    LET run_bits == 8 - b
        run_mask == Pow2(run_bits) - 1
        max_run  == run_mask
    IN  IF count <= 0 THEN o
        ELSE IF count <= max_run
             THEN Append(o, color * Pow2(run_bits) + (count - 1))
             ELSE LET ext == Min(count - (run_mask + 1), 255)
                  IN  emit(o \o <<color * Pow2(run_bits) + run_mask, ext>>,
                           color, count - (run_mask + 1 + ext), b)

\* loop body that closes the run at every pixel, equal or not
rle_step_no_merge(px, st, b) ==
    [i |-> st.i + 1, cur_color |-> px[st.i], cur_count |-> 1,
     out |-> emit(st.out, st.cur_color, st.cur_count, b)]

\* body of `for p in pixels[1:]`; st = [i, cur_color, cur_count, out]
rle_step(px, st, b) ==
    LET p == px[st.i]
    IN  IF p = st.cur_color
        THEN [st EXCEPT !.i = @ + 1, !.cur_count = @ + 1]
        ELSE [i |-> st.i + 1, cur_color |-> p, cur_count |-> 1,
              out |-> emit(st.out, st.cur_color, st.cur_count, b)]

\* n iterations of the loop body
RECURSIVE rle_loop(_, _, _, _)
rle_loop(px, st, b, n) ==
    IF n = 0 THEN st
    ELSE IF n = 1 THEN rle_step(px, st, b)
    ELSE CHOOSE r \in {rle_loop(px, m, b, n - (n \div 2)) :
                         m \in {rle_loop(px, st, b, n \div 2)}} : TRUE

ext_nibble_rle_encode(px, b) ==
    LET st0 == [i |-> 2, cur_color |-> px[1], cur_count |-> 1, out |-> <<>>]
        st  == rle_loop(px, st0, b, Len(px) - 1)
    IN  emit(st.out, st.cur_color, st.cur_count, b)

\* body of `while idx<=npix` in decode_rle; st = [buf, off]  (idx = #buf + 1)
decode_rle_step(mem, st, npix, b) ==
    IF Len(st.buf) + 1 > npix THEN st
    ELSE
    LET run_bits   == 8 - b
        run_mask   == Pow2(run_bits) - 1
        color_mask == Pow2(b) - 1
        byte  == peek(mem, st.off)
        color == (byte \div Pow2(run_bits)) % (color_mask + 1)
        r0    == byte % (run_mask + 1)
        r     == IF r0 = run_mask THEN run_mask + 1 + peek(mem, st.off + 1)
                 ELSE r0 + 1
    IN  [buf |-> st.buf \o Rep(color, r),
         off |-> IF r0 = run_mask THEN st.off + 2 ELSE st.off + 1]

RECURSIVE decode_rle_loop(_, _, _, _, _)
decode_rle_loop(mem, st, npix, b, n) ==
    IF n = 0 THEN st
    ELSE IF n = 1 THEN decode_rle_step(mem, st, npix, b)
    ELSE CHOOSE r \in {decode_rle_loop(mem, m, npix, b, n - (n \div 2)) :
                         m \in {decode_rle_loop(mem, st, npix, b, n \div 2)}} : TRUE

\* decode_rle(off, npix, bpp) -> [buf, off]; every iteration adds at least one
\* pixel, so npix iterations reach idx > npix
decode_rle(mem, o, npix, b) ==
    decode_rle_loop(mem, [buf |-> <<>>, off |-> o], npix, b, npix)

-----------------------------------------------------------------------------
(* Inputs of the RunLengthCodec machine *)

\* colours used for bit depth b: lowest, next, and highest representable
RleColors(b) == {0, 1, Pow2(b) - 1}

\* run lengths around the escape threshold of bit depth b
RunLens(b) ==
    LET run_mask == Pow2(8 - b) - 1
    IN  {1, run_mask, run_mask + 1, run_mask + 2, run_mask + 256, run_mask + 257}

SeqsUpTo(S, n) == UNION {[1..k -> S] : k \in 1..n}

RECURSIVE Expand(_)
Expand(runs) ==
    IF runs = <<>> THEN <<>>
    ELSE Rep(runs[1][1], runs[1][2]) \o Expand(Tail(runs))

RleInputs(b) ==
    SeqsUpTo(RleColors(b), MaxLen)
    \cup {Expand(rs) : rs \in SeqsUpTo(RleColors(b) \X RunLens(b), MaxRuns)}

InitRLE ==
    /\ pc = "rle_input"
    /\ bpp \in 1..4
    /\ pixels \in RleInputs(bpp)
    /\ out = <<>>
    /\ buf = <<>>
    /\ off = 0
    /\ DeltaIdle /\ AnimIdle /\ LayerIdle /\ TileIdle /\ KeyIdle /\ CartIdle /\ PoolIdle /\ MinIdle

RleEncode ==
    /\ pc = "rle_input"
    /\ out' = ext_nibble_rle_encode(pixels, bpp)
    /\ pc' = "rle_encoded"
    /\ UNCHANGED <<bpp, pixels, buf, off, deltaVars, animVars, layerVars, tileVars, keyVars, cartVars, poolVars, minVars>>

RleDecode ==
    /\ pc = "rle_encoded"
    /\ LET r == decode_rle(out, 0, Len(pixels), bpp)
       IN  buf' = r.buf /\ off' = r.off
    /\ pc' = "rle_decoded"
    /\ UNCHANGED <<bpp, pixels, out, deltaVars, animVars, layerVars, tileVars, keyVars, cartVars, poolVars, minVars>>

NextRLE == RleEncode \/ RleDecode

SpecRLE == InitRLE /\ [][NextRLE]_vars

\* C2: for every bpp in 1..4 and every non-empty pixel sequence with values
\* below 2^bpp, decoding ext_nibble_rle_encode(p, bpp) by the decoder's rule
\* yields exactly p and consumes exactly all the encoded bytes
RleRoundTrip ==
    pc = "rle_decoded" => (buf = pixels /\ off = Len(out))

\* a 4bpp run of 272 pixels: one full escaped unit (16 + 255) and one more pixel
RleRoundTripWitness ==
    /\ pc = "rle_decoded"
    /\ bpp = 4
    /\ pixels = Rep(15, 272)
    /\ out = <<255, 255, 240>>
    /\ buf = pixels

-----------------------------------------------------------------------------
(* SparseDeltaCodec: delta_encode_skip and the decoder decode_skip *)

\* 0-based indices at which base and frame differ, ascending
DiffIndices(base, frame) ==
    LET differs(i) == base[i + 1] # frame[i + 1]
    IN  SelectSeq([k \in 1..Len(base) |-> k - 1], differs)

\* delta_entry with the one-byte form also used for skip = 15
delta_entry_short_15(idx, frame, j) ==
    LET gap   == idx[j + 1] - idx[j]
        color == frame[idx[j + 1] + 1]
        skip  == gap - 1
    IN  IF skip <= 15 THEN <<skip * 16 + color>>
        ELSE IF skip <= 14 + 255 THEN <<15 * 16 + color, skip - 15>>
        ELSE <<15 * 16 + color, 255, skip % 256, (skip \div 256) % 256>>

\* bytes emitted for entry j >= 1 (0-based) of the difference list
delta_entry(idx, frame, j) ==
    LET gap   == idx[j + 1] - idx[j]
        color == frame[idx[j + 1] + 1]
        skip  == gap - 1
    IN  IF skip <= 14 THEN <<skip * 16 + color>>
        ELSE IF skip <= 14 + 255 THEN <<15 * 16 + color, skip - 15>>
        ELSE <<15 * 16 + color, 255, skip % 256, (skip \div 256) % 256>>

\* `for j in range(1, len(entries))`: entries lo..hi-1 appended in order
RECURSIVE delta_entries(_, _, _, _)
delta_entries(idx, frame, lo, hi) ==
    IF lo >= hi THEN <<>>
    ELSE IF hi = lo + 1 THEN delta_entry(idx, frame, lo)
    ELSE LET mid == (lo + hi) \div 2
         IN  delta_entries(idx, frame, lo, mid) \o delta_entries(idx, frame, mid, hi)

delta_encode_skip(base, frame) ==
    LET idx == DiffIndices(base, frame)
        n   == Len(idx)
        cnt == IF n >= 255 THEN <<255, n % 256, (n \div 256) % 256>> ELSE <<n>>
    IN  IF n = 0 THEN cnt
        ELSE cnt \o <<idx[1] % 256, (idx[1] \div 256) % 256, frame[idx[1] + 1]>>
                 \o delta_entries(idx, frame, 1, n)

\* Lua table store buf[pos]=v: a store past the end leaves holes (nil, here -1)
SetAt(b, pos, v) ==
    IF pos <= Len(b) THEN [b EXCEPT ![pos] = v]
    ELSE b \o Rep(-1, pos - Len(b) - 1) \o <<v>>

\* decoder step that reads every extension byte as 15 + ext
decode_skip_step_ext_only(mem, st) ==
    LET byte == peek(mem, st.off)
        skip0 == byte \div 16
        col   == byte % 16
        ext   == peek(mem, st.off + 1)
        skip  == IF skip0 # 15 THEN skip0 ELSE 15 + ext
        o2    == IF skip0 # 15 THEN st.off + 1 ELSE st.off + 2
        pos   == st.pos + skip + 1
    IN  [buf |-> SetAt(st.buf, pos, col), off |-> o2, pos |-> pos]

\* body of `for i=2,nd` in decode_skip; st = [buf, off, pos]
decode_skip_step(mem, st) ==
    LET byte == peek(mem, st.off)
        skip0 == byte \div 16
        col   == byte % 16
        ext   == peek(mem, st.off + 1)
        skip  == IF skip0 # 15 THEN skip0
                 ELSE IF ext = 255 THEN pk2(mem, st.off + 2) ELSE 15 + ext
        o2    == IF skip0 # 15 THEN st.off + 1
                 ELSE IF ext = 255 THEN st.off + 4 ELSE st.off + 2
        pos   == st.pos + skip + 1
    IN  [buf |-> SetAt(st.buf, pos, col), off |-> o2, pos |-> pos]

RECURSIVE decode_skip_loop(_, _, _)
decode_skip_loop(mem, st, n) ==
    IF n <= 0 THEN st
    ELSE IF n = 1 THEN decode_skip_step(mem, st)
    ELSE CHOOSE r \in {decode_skip_loop(mem, m, n - (n \div 2)) :
                         m \in {decode_skip_loop(mem, st, n \div 2)}} : TRUE

\* decode_skip(buf, off): the buffer after the delta at off has been applied
decode_skip(b, mem, o) ==
    LET nd0 == peek(mem, o)
        nd  == IF nd0 = 255 THEN pk2(mem, o + 1) ELSE nd0
        o1  == IF nd0 = 255 THEN o + 3 ELSE o + 1
    IN  IF nd = 0 THEN b
        ELSE LET pos == pk2(mem, o1) + 1
                 st0 == [buf |-> SetAt(b, pos, peek(mem, o1 + 2)),
                         off |-> o1 + 3, pos |-> pos]
             IN  decode_skip_loop(mem, st0, nd - 1).buf

-----------------------------------------------------------------------------
(* Inputs of the SparseDeltaCodec machine *)

DeltaColors == {0, 14, 15}

\* all pairs of short equal-length buffers
DeltaShort ==
    UNION {[1..k -> DeltaColors] \X [1..k -> DeltaColors] : k \in 1..MaxLen}

\* gaps between consecutive differences around the skip escapes (skip = gap-1)
GapSet == {1, 14, 15, 16, 17, 270, 271, 272}

RECURSIVE Positions(_, _)
Positions(p0, gaps) ==
    IF gaps = <<>> THEN {p0}
    ELSE {p0} \cup Positions(p0 + gaps[1], Tail(gaps))

SumSeq(s) == LET RECURSIVE S(_)
                 S(k) == IF k = 0 THEN 0 ELSE s[k] + S(k - 1)
             IN  S(Len(s))

\* base all 0; frame has colour c at p0 and after each gap, then `tail` equal pixels
GappedPair(p0, gaps, c, tail) ==
    LET ps == Positions(p0, gaps)
        L  == p0 + SumSeq(gaps) + 1 + tail
    IN  <<Rep(0, L), [i \in 1..L |-> IF (i - 1) \in ps THEN c ELSE 0]>>

DeltaGapped ==
    {GappedPair(p0, gaps, c, tail) :
        p0 \in {0, 260}, c \in {1, 15}, tail \in {0, 1},
        gaps \in {<<>>} \cup SeqsUpTo(GapSet, MaxGaps)}

\* n differences, adjacent (stride 1) or every other pixel (stride 2)
DensePair(n, c, stride) ==
    <<Rep(0, n * stride),
      [i \in 1..(n * stride) |-> IF (i - 1) % stride = 0 THEN c ELSE 0]>>

DeltaDense ==
    {DensePair(n, c, stride) : n \in 253..257, c \in {1, 15}, stride \in {1, 2}}

DeltaInputs == DeltaShort \cup DeltaGapped \cup DeltaDense

InitDelta ==
    /\ pc = "delta_input"
    /\ \E pr \in DeltaInputs : base_pixels = pr[1] /\ frame_pixels = pr[2]
    /\ delta = <<>>
    /\ dbuf = <<>>
    /\ RleIdle /\ AnimIdle /\ LayerIdle /\ TileIdle /\ KeyIdle /\ CartIdle /\ PoolIdle /\ MinIdle

DeltaEncode ==
    /\ pc = "delta_input"
    /\ delta' = delta_encode_skip(base_pixels, frame_pixels)
    /\ pc' = "delta_encoded"
    /\ UNCHANGED <<base_pixels, frame_pixels, dbuf, rleVars, animVars, layerVars, tileVars, keyVars, cartVars, poolVars, minVars>>

DeltaDecode ==
    /\ pc = "delta_encoded"
    /\ dbuf' = decode_skip(base_pixels, delta, 0)
    /\ pc' = "delta_decoded"
    /\ UNCHANGED <<base_pixels, frame_pixels, delta, rleVars, animVars, layerVars, tileVars, keyVars, cartVars, poolVars, minVars>>

NextDelta == DeltaEncode \/ DeltaDecode

SpecDelta == InitDelta /\ [][NextDelta]_vars

\* C3: applying decode_skip to delta_encode_skip(base, frame) on a copy of
\* base yields exactly frame, and with no difference the delta is the byte 0
DeltaRoundTrip ==
    /\ pc = "delta_decoded" => dbuf = frame_pixels
    /\ (pc # "delta_input" /\ base_pixels = frame_pixels) => delta = <<0>>

\* 256 differences (count escape 0xFF + 16-bit count) decoded back
DeltaRoundTripWitness ==
    /\ pc = "delta_decoded"
    /\ Len(DiffIndices(base_pixels, frame_pixels)) = 256
    /\ SubSeq(delta, 1, 3) = <<255, 0, 1>>
    /\ dbuf = frame_pixels

\* a gap of 271 (skip 270: 0xFF + 16-bit skip) decoded back
DeltaSkipEscapeReached ==
    /\ pc = "delta_decoded"
    /\ \E i \in 1..(Len(delta) - 3) : SubSeq(delta, i, i + 3) = <<255, 255, 14, 1>>
    /\ dbuf = frame_pixels

-----------------------------------------------------------------------------
(* BoundingBoxAnalyzer: crop_pixels, get_bbox, get_frame_bbox *)

SetMin(S) == CHOOSE m \in S : \A x \in S : m <= x
SetMax(S) == CHOOSE m \in S : \A x \in S : m >= x

\* concatenation of a sequence of sequences
RECURSIVE Flatten(_)
Flatten(ss) ==
    IF Len(ss) = 0 THEN <<>>
    ELSE IF Len(ss) = 1 THEN ss[1]
    ELSE LET h == Len(ss) \div 2
         IN  Flatten(SubSeq(ss, 1, h)) \o Flatten(SubSeq(ss, h + 1, Len(ss)))

\* rows by..by+bh-1, columns bx..bx+bw-1, row-major (empty when bw or bh <= 0)
crop_pixels(f, w, bx, by, bw, bh) ==
    IF bw <= 0 \/ bh <= 0 THEN <<>>
    ELSE Tup([k \in 1..(bw * bh) |->
            f[(by + ((k - 1) \div bw)) * w + (bx + ((k - 1) % bw)) + 1]])

\* 0-based indices of the non-transparent pixels of a frame
Opaque(f) == {idx \in 0..(Len(f) - 1) : f[idx + 1] # TRANS}

\* the min/max accumulation of get_bbox and get_frame_bbox over index set I
BoxOf(I, w, h) ==
    LET min_x == SetMin({w - 1} \cup {idx % w : idx \in I})
        min_y == SetMin({h - 1} \cup {idx \div w : idx \in I})
        max_x == SetMax({0} \cup {idx % w : idx \in I})
        max_y == SetMax({0} \cup {idx \div w : idx \in I})
    IN  <<min_x, min_y, max_x - min_x + 1, max_y - min_y + 1>>

\* every index f[y * fw + x] read by crop_pixels lies inside the frame (a list
\* index beyond the end raises IndexError)
crop_in_range(f, w, box) ==
    \/ box[3] <= 0 \/ box[4] <= 0
    \/ ((box[2] + box[4] - 1) * w) + (box[1] + box[3] - 1) < Len(f)

get_bbox(fs, w, h) ==
    BoxOf(UNION {Opaque(fs[k]) : k \in 1..Len(fs)}, w, h)

\* get_frame_bbox measuring the box from the frame's origin
get_frame_bbox_from_origin(f, w, h) ==
    IF Opaque(f) = {} THEN <<0, 0, 0, 0>>
    ELSE LET box == BoxOf(Opaque(f), w, h)
         IN  <<0, 0, box[1] + box[3], box[2] + box[4]>>

get_frame_bbox(f, w, h) ==
    IF Opaque(f) = {} THEN <<0, 0, 0, 0>> ELSE BoxOf(Opaque(f), w, h)

-----------------------------------------------------------------------------
(* KeyframeSelector: pick_keyframes_candidates, encode_kd_with_keys *)

\* itertools.combinations(range(lo, n), k) in its (lexicographic) order
RECURSIVE Combos(_, _, _)
Combos(lo, n, k) ==
    IF k = 0 THEN << <<>> >>
    ELSE IF lo > n - k THEN <<>>
    ELSE LET rest == Combos(lo + 1, n, k - 1)
         IN  [c \in 1..Len(rest) |-> <<lo>> \o rest[c]] \o Combos(lo + 1, n, k)

\* the candidates appended for one key count k
CandidatesOfSize(n, k) ==
    IF n > 12 /\ k >= 3
    THEN LET step == n \div k
             base == [i \in 1..k |-> (i - 1) * step]
         IN  <<base>> \o
             [o \in 1..(Min(3, step) - 1) |-> [i \in 1..k |-> (base[i] + o) % n]]
    ELSE Combos(0, n, k)

\* pick_keyframes_candidates never going beyond three keyframes
pick_keyframes_candidates_upto3(n) ==
    LET max_keys == IF n > 16 THEN Min(n, 2) ELSE Min(n, 3)
    IN  Flatten([k \in 1..max_keys |-> CandidatesOfSize(n, k)])

pick_keyframes_candidates(n) ==
    LET mk0 == IF n <= 8 THEN Min(n, 4) ELSE Min(n, 3)
        max_keys == IF n > 16 THEN Min(n, 2) ELSE mk0
    IN  Flatten([k \in 1..max_keys |-> CandidatesOfSize(n, k)])

\* zip() stops at the shorter sequence
count_diffs(a, b) ==
    Cardinality({i \in 1..Min(Len(a), Len(b)) : a[i] # b[i]})

\* min() replacing its choice also when a later position is equally good
RECURSIVE min_key_last_on_tie(_, _, _, _, _)
min_key_last_on_tie(fs, keys, i, ki, best) ==
    LET d(k) == count_diffs(fs[keys[k] + 1], fs[i])
    IN  IF ki > Len(keys) THEN best
        ELSE min_key_last_on_tie(fs, keys, i, ki + 1,
                                 IF d(ki) <= d(best) THEN ki ELSE best)

\* min(range(nkeys), key=...): positions visited in order, the choice replaced
\* only by a strictly smaller difference count (1-based positions)
RECURSIVE min_key(_, _, _, _, _)
min_key(fs, keys, i, ki, best) ==
    LET d(k) == count_diffs(fs[keys[k] + 1], fs[i])
    IN  IF ki > Len(keys) THEN best
        ELSE min_key(fs, keys, i, ki + 1, IF d(ki) < d(best) THEN ki ELSE best)

\* best_k_idx of frame i (0-based position in key_indices)
BestKey(fs, key_indices, i) == min_key(fs, key_indices, i, 2, 1) - 1

\* prefix sums: Offsets(ss, start)[i] = start + total length of ss[1..i-1]
Offsets(ss, start) ==
    Tup([i \in 1..Len(ss) |-> start + Len(Flatten(SubSeq(ss, 1, i - 1)))])

encode_kd_with_keys(fs, key_indices, b) ==
    LET n == Len(fs)
        assignments == Tup([i \in 1..n |-> BestKey(fs, key_indices, i)])
        key_rles == Tup([k \in 1..Len(key_indices) |->
                        ext_nibble_rle_encode(fs[key_indices[k] + 1], b)])
        deltas == Tup([i \in 1..n |->
                     delta_encode_skip(fs[key_indices[assignments[i] + 1] + 1], fs[i])])
        keydata == Flatten(key_rles)
    IN  [key_rles |-> key_rles, assignments |-> assignments,
         delta_offsets |-> Offsets(deltas, Len(keydata)),
         data |-> keydata \o Flatten(deltas)]

-----------------------------------------------------------------------------
(* PaletteReducer: min_bpp_for_frames, build_palette, pack_palette,
   quantize_pixels *)

ColorsOf(fs) == UNION {{fs[k][i] : i \in 1..Len(fs[k])} : k \in 1..Len(fs)}

\* min_bpp_for_frames giving one bit per pixel to three colours
min_bpp_three_in_one_bit(fs) ==
    LET n == Cardinality(ColorsOf(fs))
    IN  IF n <= 3 THEN 1 ELSE IF n <= 4 THEN 2 ELSE IF n <= 8 THEN 3 ELSE 4

min_bpp_for_frames(fs) ==
    LET n == Cardinality(ColorsOf(fs))
    IN  IF n <= 2 THEN 1 ELSE IF n <= 4 THEN 2 ELSE IF n <= 8 THEN 3 ELSE 4

\* sorted(S)
Sorted(S) ==
    Tup([i \in 1..Cardinality(S) |->
        CHOOSE x \in S : Cardinality({y \in S : y < x}) = i - 1])

\* build_palette leaving the transparent colour at its sorted place
build_palette_trans_in_order(fs, b) ==
    LET pal  == Sorted(ColorsOf(fs))
        size == Pow2(b)
    IN  Tup([i \in 1..size |-> IF i <= Len(pal) THEN pal[i] ELSE 0])

build_palette(fs, b) ==
    LET colors == ColorsOf(fs)
        pal  == (IF TRANS \in colors THEN <<TRANS>> ELSE <<>>)
                \o Sorted(colors \ {TRANS})
        size == Pow2(b)
    IN  Tup([i \in 1..size |-> IF i <= Len(pal) THEN pal[i] ELSE 0])

\* pack_palette with the two nibbles of each byte exchanged
pack_palette_swapped(palette) ==
    [k \in 1..((Len(palette) + 1) \div 2) |->
        LET lo == palette[2 * k - 1] % 16
            hi == IF 2 * k <= Len(palette) THEN palette[2 * k] % 16 ELSE 0
        IN  lo + hi * 16]

pack_palette(palette) ==
    Tup([k \in 1..((Len(palette) + 1) \div 2) |->
        LET lo == palette[2 * k - 1] % 16
            hi == IF 2 * k <= Len(palette) THEN palette[2 * k] % 16 ELSE 0
        IN  lo * 16 + hi])

\* position of the first palette entry equal to p, 0 when there is none
quantize_pixels(px, palette) ==
    Tup([i \in 1..Len(px) |->
        LET hits == {k \in 1..Len(palette) : palette[k] = px[i]}
        IN  IF hits = {} THEN 0 ELSE SetMin(hits) - 1])

-----------------------------------------------------------------------------
(* AnimationEncoder: encode_type0, encode_type1, encode_animation *)

u16(v) == <<v % 256, (v \div 256) % 256>>

\* the block built in the body of `for key_indices in candidates`
type0_block(n, cropped, box, b, palette, key_indices) ==
    LET kd == encode_kd_with_keys(cropped, key_indices, b)
    IN  <<n, 0, b>>
        \o (IF b < 4 /\ palette # <<>> THEN pack_palette(palette) ELSE <<>>)
        \o <<Len(key_indices), box[1], box[2], box[3], box[4]>>
        \o key_indices
        \o Flatten([k \in 1..Len(kd.key_rles) |-> u16(Len(kd.key_rles[k]))])
        \o kd.assignments
        \o Flatten([i \in 1..n |-> u16(kd.delta_offsets[i])])
        \o kd.data

\* type0_best with the comparison inverted: the longest block is kept
RECURSIVE type0_best_inverted(_, _, _, _, _, _, _, _)
type0_best_inverted(n, cropped, box, b, palette, cands, i, best) ==
    IF i > Len(cands) THEN best
    ELSE CHOOSE r \in
           {type0_best_inverted(n, cropped, box, b, palette, cands, i + 1,
                       IF best = <<>> \/ Len(blk) > Len(best) THEN blk ELSE best) :
              blk \in {type0_block(n, cropped, box, b, palette, cands[i])}} : TRUE

\* `if best_block is None or len(block) < len(best_block)` over the candidates
RECURSIVE type0_best(_, _, _, _, _, _, _, _)
type0_best(n, cropped, box, b, palette, cands, i, best) ==
    IF i > Len(cands) THEN best
    ELSE CHOOSE r \in
           {type0_best(n, cropped, box, b, palette, cands, i + 1,
                       IF best = <<>> \/ Len(blk) < Len(best) THEN blk ELSE best) :
              blk \in {type0_block(n, cropped, box, b, palette, cands[i])}} : TRUE

\* encode_type0 that builds the block of the first candidate only
encode_type0_first_candidate(fs, w, h, b, palette) ==
    LET n   == Len(fs)
        box == get_bbox(fs, w, h)
        cr0 == Tup([k \in 1..n |-> crop_pixels(fs[k], w, box[1], box[2], box[3], box[4])])
        cropped == IF b < 4 /\ palette # <<>>
                   THEN Tup([k \in 1..n |-> quantize_pixels(cr0[k], palette)])
                   ELSE cr0
    IN  IF \E k \in 1..n : ~crop_in_range(fs[k], w, box) THEN "IndexError"
        ELSE IF box[3] <= 0 \/ box[4] <= 0 THEN "IndexError"
        ELSE type0_block(n, cropped, box, b, palette, pick_keyframes_candidates(n)[1])

\* "IndexError" when the crop is empty: ext_nibble_rle_encode reads pixels[0]
encode_type0(fs, w, h, b, palette) ==
    LET n   == Len(fs)
        box == get_bbox(fs, w, h)
        cr0 == Tup([k \in 1..n |-> crop_pixels(fs[k], w, box[1], box[2], box[3], box[4])])
        cropped == IF b < 4 /\ palette # <<>>
                   THEN Tup([k \in 1..n |-> quantize_pixels(cr0[k], palette)])
                   ELSE cr0
    IN  IF \E k \in 1..n : ~crop_in_range(fs[k], w, box) THEN "IndexError"
        ELSE IF box[3] <= 0 \/ box[4] <= 0 THEN "IndexError"
        ELSE type0_best(n, cropped, box, b, palette,
                        pick_keyframes_candidates(n), 1, <<>>)

type1_frame_data(f, w, h, b, palette) ==
    LET box == get_frame_bbox(f, w, h)
        cr0 == crop_pixels(f, w, box[1], box[2], box[3], box[4])
        cropped == IF b < 4 /\ palette # <<>> THEN quantize_pixels(cr0, palette)
                   ELSE cr0
    IN  IF box[3] = 0 \/ box[4] = 0 THEN <<0, 0, 0, 0>>
        ELSE box \o ext_nibble_rle_encode(cropped, b)

encode_type1(fs, w, h, b, palette) ==
    LET n == Len(fs)
        frame_datas == Tup([k \in 1..n |-> type1_frame_data(fs[k], w, h, b, palette)])
        offs == Offsets(frame_datas, 0)
    IN  IF \E k \in 1..n : ~crop_in_range(fs[k], w, get_frame_bbox(fs[k], w, h))
        THEN "IndexError"
        ELSE <<n, 1, b>>
             \o (IF b < 4 /\ palette # <<>> THEN pack_palette(palette) ELSE <<>>)
             \o Flatten([k \in 1..n |-> u16(offs[k])])
             \o Flatten(frame_datas)

\* pick_block with `<=`: on equal lengths the PerFrame block is returned
pick_block_pf_on_tie(kd_block, pf_block) ==
    IF Len(pf_block) <= Len(kd_block) THEN pf_block ELSE kd_block

\* `if len(pf_block) < len(kd_block): return pf_block  else: return kd_block`
pick_block(kd_block, pf_block) ==
    IF Len(pf_block) < Len(kd_block) THEN pf_block ELSE kd_block

\* encode_animation(name, frames, fw, fh) with bpp='auto'
encode_animation(fs, w, h) ==
    LET b == min_bpp_for_frames(fs)
        palette == IF b < 4 THEN build_palette(fs, b) ELSE <<>>
        kd == encode_type0(fs, w, h, b, palette)
    IN  IF kd = "IndexError"
        THEN [err |-> TRUE, bpp |-> b, palette |-> palette,
              kd |-> <<>>, pf |-> <<>>, block |-> <<>>]
        ELSE LET pf == encode_type1(fs, w, h, b, palette)
             IN  IF pf = "IndexError"
                 THEN [err |-> TRUE, bpp |-> b, palette |-> palette,
                       kd |-> kd, pf |-> <<>>, block |-> <<>>]
                 ELSE [err |-> FALSE, bpp |-> b, palette |-> palette,
                       kd |-> kd, pf |-> pf, block |-> pick_block(kd, pf)]

-----------------------------------------------------------------------------
(* The fixed-format decoder: read_anim, decode_anim *)

\* mini-chunk around one block: [na=1][cell_w=0][cell_h=0][off_lo=0][off_hi=0][block]
mini_chunk(block) == <<1, 0, 0, 0, 0>> \o block

\* read_anim(a, cb): the animation's header fields and offsets
read_anim(mem, a, cb) ==
    LET na   == peek(mem, cb)
        aoff == pk2(mem, cb + 3 + (a - 1) * 2)
        ab   == cb + 3 + na * 2 + aoff
        nf   == peek(mem, ab)
        enc  == peek(mem, ab + 1)
        b    == peek(mem, ab + 2)
        np   == IF b < 4 THEN Pow2(b) ELSE 0
        pal  == Tup([i \in 1..np |->
                    LET byte == peek(mem, ab + 3 + ((i - 1) \div 2))
                    IN  IF (i - 1) % 2 = 0 THEN (byte \div 16) % 16 ELSE byte % 16])
        pal_bytes == (np + 1) \div 2
        h    == ab + 3 + pal_bytes
    IN  IF enc = 0
        THEN LET nk == peek(mem, h)
                 ki_off == h + 5
                 ks_off == ki_off + nk
                 as_off == ks_off + nk * 2
                 do_off == as_off + nf
                 data_off == do_off + nf * 2
             IN  [enc |-> 0, nf |-> nf, nk |-> nk, bpp |-> b, pal |-> pal,
                  bx |-> peek(mem, h + 1), by |-> peek(mem, h + 2),
                  bw |-> peek(mem, h + 3), bh |-> peek(mem, h + 4),
                  ki_off |-> ki_off, ks_off |-> ks_off, as_off |-> as_off,
                  do_off |-> do_off, data_off |-> data_off,
                  ksz |-> [i \in 0..(nk - 1) |-> pk2(mem, ks_off + i * 2)]]
        ELSE [enc |-> 1, nf |-> nf, bpp |-> b, pal |-> pal,
              fo_off |-> h, data_off |-> h + nf * 2]

\* koff of keyframe i: data_off plus the sizes of the keyframes before it
key_off(ai, i) ==
    ai.data_off + SumSeq([k \in 1..i |-> ai.ksz[k - 1]])

\* one frame of a type 0 animation, before the palette lookup
decode_frame0(mem, ai, f) ==
    LET npix == ai.bw * ai.bh
        ki   == peek(mem, ai.as_off + f - 1)
        kb   == IF ki < ai.nk THEN decode_rle(mem, key_off(ai, ki), npix, ai.bpp).buf
                ELSE <<>>
        doff == pk2(mem, ai.do_off + (f - 1) * 2)
    IN  [buf |-> decode_skip(kb, mem, ai.data_off + doff),
         bx |-> ai.bx, by |-> ai.by, bw |-> ai.bw, bh |-> ai.bh]

\* one frame of a type 1 animation, before the palette lookup
decode_frame1(mem, ai, f) ==
    LET foff == pk2(mem, ai.fo_off + (f - 1) * 2)
        addr == ai.data_off + foff
        bw   == peek(mem, addr + 2)
        bh   == peek(mem, addr + 3)
    IN  IF bw = 0 \/ bh = 0
        THEN [buf |-> <<>>, bx |-> 0, by |-> 0, bw |-> 0, bh |-> 0]
        ELSE [buf |-> decode_rle(mem, addr + 4, bw * bh, ai.bpp).buf,
              bx |-> peek(mem, addr), by |-> peek(mem, addr + 1),
              bw |-> bw, bh |-> bh]

\* buf[i]=ai.pal[buf[i]+1] or trans
pal_lookup(ai, v) ==
    IF v + 1 \in 1..Len(ai.pal) THEN ai.pal[v + 1] ELSE TRANS

decode_anim(mem, ai) ==
    Tup([f \in 1..ai.nf |->
        LET fr == IF ai.enc = 0 THEN decode_frame0(mem, ai, f)
                  ELSE decode_frame1(mem, ai, f)
        IN  IF ai.bpp < 4 /\ Len(ai.pal) > 0
            THEN [fr EXCEPT !.buf = Tup([i \in 1..Len(fr.buf) |-> pal_lookup(ai, fr.buf[i])])]
            ELSE fr])

\* the decoded crop placed at its bounding box on an all-transparent canvas
\* (draw_char walks the crop row-major from (bx, by))
Canvas(fr, w, h) ==
    Tup([k \in 1..(w * h) |->
        LET x == (k - 1) % w
            y == (k - 1) \div w
        IN  IF x >= fr.bx /\ x < fr.bx + fr.bw /\ y >= fr.by /\ y < fr.by + fr.bh
               /\ (y - fr.by) * fr.bw + (x - fr.bx) + 1 <= Len(fr.buf)
            THEN fr.buf[(y - fr.by) * fr.bw + (x - fr.bx) + 1]
            ELSE TRANS])

-----------------------------------------------------------------------------
(* Inputs of the AnimationEncoder machine *)

\* every animation of 1..MaxFrames frames of 2x2 pixels, transparent or colour 1
SmallAnims ==
    {[frames |-> fs, fw |-> 2, fh |-> 2] :
        fs \in SeqsUpTo([1..4 -> {TRANS, 1}], MaxFrames)}

\* 3x2 frames with many colours: together they need 1, 2, 3 or 4 bits per pixel
FrameLib ==
    { <<TRANS, 1, 2, 3, 4, TRANS>>,
      <<TRANS, 1, 2, 3, 5, TRANS>>,
      <<6, 7, 8, 9, 10, 11>>,
      <<TRANS, TRANS, TRANS, TRANS, TRANS, TRANS>>,
      <<TRANS, TRANS, TRANS, TRANS, 1, TRANS>>,
      <<0, 0, 0, 0, 0, 0>>,
      <<15, 15, 13, 13, TRANS, TRANS>> }

\* 4x4 frames with 16 and 15 colours (4 bits per pixel), one pixel apart
WideLib ==
    { <<0, 1, 2, 3, 4, 5, 6, 7, 8, 9, 10, 11, 12, 13, TRANS, 15>>,
      <<0, 1, 2, 3, 4, 5, 6, 7, 8, 9, 10, 11, 12, 13, TRANS, 13>> }

RichAnims ==
    {[frames |-> fs, fw |-> 3, fh |-> 2] : fs \in SeqsUpTo(FrameLib, MaxFrames)}
    \cup {[frames |-> fs, fw |-> 4, fh |-> 4] : fs \in SeqsUpTo(WideLib, MaxFrames)}

\* rows a 4x4 frame is built from
RowLib == { <<TRANS, TRANS, TRANS, TRANS>>, <<1, 1, 1, 1>>, <<TRANS, 1, 2, TRANS>> }

\* 3 frames of 4x4: the second equals the first, the third differs in one pixel
ScenarioAnims ==
    {[frames |-> <<f1, f1, [f1 EXCEPT ![p] = c]>>, fw |-> 4, fh |-> 4] :
        f1 \in {Flatten(rows) : rows \in [1..4 -> RowLib]},
        p \in 1..16, c \in {TRANS, 1, 3}}

AnimInputs == SmallAnims \cup RichAnims \cup ScenarioAnims

InitAnim ==
    /\ pc = "anim_input"
    /\ \E a \in AnimInputs : frames = a.frames /\ fw = a.fw /\ fh = a.fh
    /\ anim = <<>>
    /\ decoded = <<>>
    /\ RleIdle /\ DeltaIdle /\ LayerIdle /\ TileIdle /\ KeyIdle /\ CartIdle /\ PoolIdle /\ MinIdle

\* encode_animation(name, frames, fw, fh): both candidates, then the smaller
EncodeAnimation ==
    /\ pc = "anim_input"
    /\ anim' = encode_animation(frames, fw, fh)
    /\ pc' = IF anim'.err THEN "anim_error" ELSE "anim_encoded"
    /\ UNCHANGED <<frames, fw, fh, decoded, rleVars, deltaVars, layerVars, tileVars, keyVars, cartVars, poolVars, minVars>>

\* read_anim + decode_anim on the block loaded as a one-animation chunk
DecodeAnimation ==
    /\ pc = "anim_encoded"
    /\ LET mem == mini_chunk(anim.block)
           fr  == decode_anim(mem, read_anim(mem, 1, 0))
       IN  decoded' = Tup([f \in 1..Len(fr) |-> Canvas(fr[f], fw, fh)])
    /\ pc' = "anim_decoded"
    /\ UNCHANGED <<frames, fw, fh, anim, rleVars, deltaVars, layerVars, tileVars, keyVars, cartVars, poolVars, minVars>>

NextAnim == EncodeAnimation \/ DecodeAnimation

SpecAnim == InitAnim /\ [][NextAnim]_vars

\* frames of a 2x2 animation with a pixel missing, complete, or a pixel too many
RaggedFrames == UNION {[1..len -> {TRANS, 1}] : len \in {3, 5}}
WholeFrames  == { <<1, 1, 1, 1>>, <<TRANS, 1, 1, TRANS>>,
                  <<1, TRANS, TRANS, TRANS>>, <<TRANS, TRANS, TRANS, 1>> }

\* animations of 2x2 frames in which some frame has not 4 pixels
RaggedAnims ==
    {<<f>> : f \in RaggedFrames}
    \cup {<<g, f>> : g \in WholeFrames, f \in RaggedFrames}
    \cup {<<f, g>> : g \in WholeFrames, f \in RaggedFrames}

InitRagged ==
    /\ pc = "anim_input"
    /\ frames \in {Tup([k \in 1..Len(fs) |-> Tup(fs[k])]) : fs \in RaggedAnims}
    /\ fw = 2 /\ fh = 2
    /\ anim = <<>>
    /\ decoded = <<>>
    /\ RleIdle /\ DeltaIdle /\ LayerIdle /\ TileIdle /\ KeyIdle /\ CartIdle /\ PoolIdle /\ MinIdle

\* encode_animation called with malformed frames
SpecRagged == InitRagged /\ [][EncodeAnimation]_vars

\* C1: decoding the block returned by encode_animation and placing each crop
\* at its bounding box on a transparent canvas reproduces every input frame
AnimRoundTrip ==
    pc = "anim_decoded" => decoded = frames

\* a KeyframeDelta block with a palette and a non-empty delta decoded back
AnimRoundTripWitness ==
    /\ pc = "anim_decoded"
    /\ decoded = frames
    /\ anim.block[2] = 0
    /\ anim.bpp = 2
    /\ Len(frames) = 3
    /\ frames[3] # frames[1]

\* a PerFrame block decoded back
AnimRoundTripPerFrameReached ==
    /\ pc = "anim_decoded"
    /\ decoded = frames
    /\ anim.block[2] = 1
    /\ Len(frames) = 2

\* a KeyframeDelta block without palette (4 bits per pixel) decoded back
AnimRoundTripRawReached ==
    /\ pc = "anim_decoded"
    /\ decoded = frames
    /\ anim.block[2] = 0
    /\ anim.bpp = 4
    /\ frames[1] # frames[2]

\* C4: the block returned by encode_animation is as long as the shorter of the
\* KeyframeDelta and PerFrame candidates, and on equal lengths it is the
\* KeyframeDelta (type 0) block
AnimMinimal ==
    pc = "anim_encoded" =>
        /\ Len(anim.block) = Min(Len(anim.kd), Len(anim.pf))
        /\ Len(anim.kd) = Len(anim.pf) => (anim.block = anim.kd /\ anim.block[2] = 0)

\* both candidates have the same length and the KeyframeDelta block is returned
AnimMinimalWitness ==
    /\ pc = "anim_encoded"
    /\ Len(anim.kd) = Len(anim.pf)
    /\ anim.kd # anim.pf
    /\ anim.block = anim.kd

\* the scenario of C8: 3 frames of 4x4, frame 2 = frame 1, frame 3 one pixel off
Scenario ==
    /\ Len(frames) = 3 /\ fw = 4 /\ fh = 4
    /\ frames[2] = frames[1]
    /\ count_diffs(frames[1], frames[3]) = 1

\* key count of a type 0 block
KeyCount(block) == read_anim(mini_chunk(block), 1, 0).nk

\* first byte (the count byte) of the delta stored for frame f of a type 0 block
DeltaCountByte(block, f) ==
    LET mem == mini_chunk(block)
        ai  == read_anim(mem, 1, 0)
    IN  peek(mem, ai.data_off + pk2(mem, ai.do_off + (f - 1) * 2))

\* C8 as stated: in the scenario encode_animation returns a KeyframeDelta block
\* with 1 or 2 keyframes whose delta for frame 2 is the zero-difference entry
ScenarioReturnsKeyframeDelta ==
    (pc = "anim_encoded" /\ Scenario) =>
        /\ anim.block[2] = 0
        /\ KeyCount(anim.block) \in {1, 2}
        /\ DeltaCountByte(anim.block, 2) = 0

\* C8 amended: in the scenario the KeyframeDelta candidate has 1 or 2 keyframes
\* and a zero-difference delta for frame 2, and encode_animation returns that
\* candidate unless the PerFrame block is strictly shorter
ScenarioKeyframeDeltaCandidate ==
    (pc = "anim_encoded" /\ Scenario) =>
        /\ anim.kd[2] = 0
        /\ KeyCount(anim.kd) \in {1, 2}
        /\ DeltaCountByte(anim.kd, 2) = 0
        /\ anim.block = (IF Len(anim.pf) < Len(anim.kd) THEN anim.pf ELSE anim.kd)

\* a scenario animation for which the PerFrame block is shorter and is returned
ScenarioWitness ==
    /\ pc = "anim_encoded" /\ Scenario
    /\ Len(anim.pf) < Len(anim.kd)
    /\ anim.block = anim.pf
    /\ KeyCount(anim.kd) = 1
    /\ DeltaCountByte(anim.kd, 2) = 0

\* a scenario animation for which the KeyframeDelta block is returned
ScenarioKeyframeDeltaReached ==
    /\ pc = "anim_encoded" /\ Scenario
    /\ anim.block = anim.kd
    /\ Len(anim.kd) < Len(anim.pf)

-----------------------------------------------------------------------------
(* MapLayerEncoder: encode_rle, detect_tiling, encode_packbits, encode_layer *)

\* cell_grid[y][x] for 0-based x, y
cell(g, x, y) == g[y + 1][x + 1]

\* `run = 1; while i + run < n and run < cap and s[i + run] == s[i]: run += 1`
\* at the 0-based position i of s
run_at(s, i, cap) ==
    LET lim == Min(cap, Len(s) - i)
    IN  CHOOSE r \in 1..lim :
            /\ \A k \in 1..(r - 1) : s[i + k + 1] = s[i + 1]
            /\ (r = lim \/ s[i + r + 1] # s[i + 1])

\* body of `while x < map_w` of encode_rle for one row; st = [x, out]
rle_row_step(row, st, w) ==
    IF st.x >= w THEN st
    ELSE LET run == run_at(SubSeq(row, 1, w), st.x, 255)
         IN  [x |-> st.x + run, out |-> st.out \o <<row[st.x + 1], run>>]

\* n iterations of the loop body (the body does nothing once x >= map_w)
RECURSIVE rle_row_loop(_, _, _, _)
rle_row_loop(row, st, w, n) ==
    IF n = 0 THEN st
    ELSE IF n = 1 THEN rle_row_step(row, st, w)
    ELSE CHOOSE r \in {rle_row_loop(row, m, w, n - (n \div 2)) :
                         m \in {rle_row_loop(row, st, w, n \div 2)}} : TRUE

rle_row(row, w) == rle_row_loop(row, [x |-> 0, out |-> <<>>], w, w).out

encode_rle(g, w, h) == Flatten([y \in 1..h |-> rle_row(g[y], w)])

\* coordinates of the non-empty cells
NonEmpty(g, w, h) ==
    {c \in (0..(w - 1)) \X (0..(h - 1)) : cell(g, c[1], c[2]) # 0}

\* "Verify modulo tiling" over the bounding box
tiling_ok(g, min_x, min_y, max_x, max_y, tw, th) ==
    \A y \in min_y..max_y : \A x \in min_x..max_x :
        cell(g, x, y) = cell(g, min_x + ((x - min_x) % tw), min_y + ((y - min_y) % th))

\* tile_cells: the th x tw cells at the bounding box corner, row-major
tile_cells(g, min_x, min_y, tw, th) ==
    Tup([k \in 1..(tw * th) |->
            cell(g, min_x + ((k - 1) % tw), min_y + ((k - 1) \div tw))])

\* tiling_step with the region size one short (max - min instead of max - min + 1)
tiling_step_short_region(g, min_x, min_y, max_x, max_y, best, k) ==
    LET bw == max_x - min_x + 1
        bh == max_y - min_y + 1
        tw == (k \div bh) + 1
        th == (k % bh) + 1
        cost == 6 + tw * th
    IN  IF best # <<>> /\ cost >= best[1] THEN best
        ELSE IF tiling_ok(g, min_x, min_y, max_x, max_y, tw, th)
             THEN <<cost, tw, th, min_x, min_y, bw - 1, bh - 1,
                    tile_cells(g, min_x, min_y, tw, th)>>
             ELSE best

\* body of `for tw ... for th ...` of detect_tiling; k counts the iterations,
\* best is <<cost, tw, th, dx, dy, rw, rh, tile_cells>> or <<>> for None
tiling_step(g, min_x, min_y, max_x, max_y, best, k) ==
    LET bw == max_x - min_x + 1
        bh == max_y - min_y + 1
        tw == (k \div bh) + 1
        th == (k % bh) + 1
        cost == 6 + tw * th
    IN  IF best # <<>> /\ cost >= best[1] THEN best
        ELSE IF tiling_ok(g, min_x, min_y, max_x, max_y, tw, th)
             THEN <<cost, tw, th, min_x, min_y, bw, bh,
                    tile_cells(g, min_x, min_y, tw, th)>>
             ELSE best

\* iterations k .. k+n-1 of the search
RECURSIVE tiling_loop(_, _, _, _, _, _, _, _)
tiling_loop(g, min_x, min_y, max_x, max_y, best, k, n) ==
    IF n = 0 THEN best
    ELSE IF n = 1 THEN tiling_step(g, min_x, min_y, max_x, max_y, best, k)
    ELSE CHOOSE r \in
           {tiling_loop(g, min_x, min_y, max_x, max_y, m, k + (n \div 2), n - (n \div 2)) :
              m \in {tiling_loop(g, min_x, min_y, max_x, max_y, best, k, n \div 2)}} : TRUE

\* detect_tiling returning the whole bounding box as the tile
detect_tiling_whole_box(g, w, h) ==
    LET ne == NonEmpty(g, w, h)
        min_x == SetMin({c[1] : c \in ne})
        max_x == SetMax({c[1] : c \in ne})
        min_y == SetMin({c[2] : c \in ne})
        max_y == SetMax({c[2] : c \in ne})
        bw == max_x - min_x + 1
        bh == max_y - min_y + 1
    IN  IF ne = {} THEN <<>>
        ELSE <<6 + bw * bh, bw, bh, min_x, min_y, bw, bh,
               tile_cells(g, min_x, min_y, bw, bh)>>

\* <<>> stands for None (empty layer)
detect_tiling(g, w, h) ==
    LET ne == NonEmpty(g, w, h)
        min_x == SetMin({c[1] : c \in ne})
        max_x == SetMax({c[1] : c \in ne})
        min_y == SetMin({c[2] : c \in ne})
        max_y == SetMax({c[2] : c \in ne})
    IN  IF ne = {} THEN <<>>
        ELSE tiling_loop(g, min_x, min_y, max_x, max_y, <<>>, 0,
                         (max_x - min_x + 1) * (max_y - min_y + 1))

\* literal_len without the early break: literals up to the cap of 128
literal_len_to_cap(flat, i) == Min(128, Len(flat) - i)

\* number of literals collected by `while i < n and lit_len < 128` from the
\* 0-based position i, where no run of 3+ starts at i
literal_len(flat, i) ==
    LET lim == Min(128, Len(flat) - i)
    IN  CHOOSE l \in 1..lim :
            /\ \A k \in 0..(l - 1) : run_at(flat, i + k, 130) < 3
            /\ (l = lim \/ run_at(flat, i + l, 130) >= 3)

\* body of `while i < n` of encode_packbits; st = [i, out]
packbits_step(flat, st) ==
    IF st.i >= Len(flat) THEN st
    ELSE LET run == run_at(flat, st.i, 130)
         IN  IF run >= 3
             THEN [i |-> st.i + run,
                   out |-> st.out \o <<125 + run, flat[st.i + 1]>>]
             ELSE LET lit_len == literal_len(flat, st.i)
                  IN  [i |-> st.i + lit_len,
                       out |-> st.out \o <<lit_len - 1>>
                                      \o SubSeq(flat, st.i + 1, st.i + lit_len)]

\* n iterations of the loop body (the body does nothing once i >= n)
RECURSIVE packbits_loop(_, _, _)
packbits_loop(flat, st, n) ==
    IF n = 0 THEN st
    ELSE IF n = 1 THEN packbits_step(flat, st)
    ELSE CHOOSE r \in {packbits_loop(flat, m, n - (n \div 2)) :
                         m \in {packbits_loop(flat, st, n \div 2)}} : TRUE

encode_packbits(g, w, h) ==
    LET flat == Flatten([y \in 1..h |-> SubSeq(g[y], 1, w)])
    IN  packbits_loop(flat, [i |-> 0, out |-> <<>>], Len(flat)).out

\* `bytearray([tw, th, dx, dy, rw, rh])` extended by the tile cells
tiling_data(tiling) ==
    <<tiling[2], tiling[3], tiling[4], tiling[5], tiling[6], tiling[7]>> \o tiling[8]

\* bytearray() accepts only values in range(0, 256) and raises ValueError otherwise
is_bytes(s) == \A i \in 1..Len(s) : s[i] >= 0 /\ s[i] < 256

\* select_mode without the size test for tiling: the tiling is never taken
select_mode_never_tiling(rle, tiling, packbits) ==
    LET b1 == [err |-> FALSE, mode |-> 0, data |-> rle]
    IN  IF Len(packbits) < Len(b1.data)
        THEN [err |-> FALSE, mode |-> 2, data |-> packbits]
        ELSE b1

\* best_mode, best_data of encode_layer: RLE, then tiling, then PackBits, each
\* replacing the best so far only when strictly smaller; err when building the
\* tiling payload raises ValueError
select_mode(rle, tiling, packbits) ==
    LET b1 == IF tiling # <<>> /\ tiling[1] < Len(rle)
              THEN [err |-> ~is_bytes(tiling_data(tiling)),
                    mode |-> 1, data |-> tiling_data(tiling)]
              ELSE [err |-> FALSE, mode |-> 0, data |-> rle]
    IN  IF b1.err THEN [err |-> TRUE, mode |-> 1, data |-> <<>>]
        ELSE IF Len(packbits) < Len(b1.data)
        THEN [err |-> FALSE, mode |-> 2, data |-> packbits]
        ELSE b1

encode_layer(g, w, h) ==
    LET rle      == encode_rle(g, w, h)
        tiling   == detect_tiling(g, w, h)
        packbits == encode_packbits(g, w, h)
        best     == select_mode(rle, tiling, packbits)
        cells_ok == \A y \in 1..h : is_bytes(SubSeq(g[y], 1, w))
    IN  IF ~cells_ok
        THEN [err |-> TRUE, rle |-> <<>>, tiling |-> <<>>, packbits |-> <<>>,
              mode |-> 0, data |-> <<>>]
        ELSE [err |-> best.err, rle |-> rle, tiling |-> tiling, packbits |-> packbits,
              mode |-> best.mode, data |-> best.data]

\* periodic tiling read back: the tw x th tile repeated over the rw x rh region
\* at (dx, dy), every other cell empty
expand_tiling(data, w, h) ==
    LET tw == data[1]
        th == data[2]
        dx == data[3]
        dy == data[4]
        rw == data[5]
        rh == data[6]
    IN  Tup([y \in 1..h |-> Tup([x \in 1..w |->
            IF /\ x - 1 >= dx /\ x - 1 < dx + rw
               /\ y - 1 >= dy /\ y - 1 < dy + rh
            THEN data[6 + (((y - 1 - dy) % th) * tw) + ((x - 1 - dx) % tw) + 1]
            ELSE 0])])

\* all w x h grids over the cell values C
Grids(w, h, C) ==
    {Tup([y \in 1..h |-> SubSeq(f, (y - 1) * w + 1, y * w)]) : f \in [1..(w * h) -> C]}

\* the 2x2 pattern p = <<p00, p10, p01, p11>> repeated n x n times
Tiled(pat, n) ==
    Tup([y \in 1..(2 * n) |-> Tup([x \in 1..(2 * n) |->
            pat[(((y - 1) % 2) * 2) + ((x - 1) % 2) + 1]])])

\* cells of the 2x2 patterns
PatternCells == (0..MaxCell) \cup {255}

\* rows longer than one RLE run: uniform, empty, period 2 and period 3
LongRows ==
    { Rep(1, 300), Rep(0, 300),
      Tup([x \in 1..300 |-> x % 2]),
      Tup([x \in 1..300 |-> IF x % 3 = 0 THEN 2 ELSE 1]) }

LayerInputs ==
    {[g |-> g, w |-> 4, h |-> 2] : g \in Grids(4, 2, 0..MaxCell)}
    \cup {[g |-> g, w |-> 3, h |-> 2] : g \in Grids(3, 2, 0..MaxCell)}
    \cup {[g |-> Tiled(pat, 10), w |-> 20, h |-> 20] : pat \in [1..4 -> PatternCells]}
    \cup {[g |-> Rep(Rep(5, 20), 20), w |-> 20, h |-> 20]}
    \cup {[g |-> <<r>>, w |-> 300, h |-> 1] : r \in LongRows}
    \cup {[g |-> <<r, r, r>>, w |-> 300, h |-> 3] : r \in LongRows}

InitLayer ==
    /\ pc = "layer_input"
    /\ \E a \in LayerInputs : cell_grid = a.g /\ map_w = a.w /\ map_h = a.h
    /\ layer = <<>>
    /\ expanded = <<>>
    /\ RleIdle /\ DeltaIdle /\ AnimIdle /\ TileIdle /\ KeyIdle /\ CartIdle /\ PoolIdle /\ MinIdle

\* encode_layer(cell_grid, map_w, map_h)
EncodeLayer ==
    /\ pc = "layer_input"
    /\ layer' = encode_layer(cell_grid, map_w, map_h)
    /\ pc' = IF layer'.err THEN "layer_error" ELSE "layer_encoded"
    /\ UNCHANGED <<cell_grid, map_w, map_h, expanded, rleVars, deltaVars, animVars, tileVars, keyVars, cartVars, poolVars, minVars>>

\* a mode 1 payload expanded over the map
ExpandTiling ==
    /\ pc = "layer_encoded"
    /\ layer.mode = 1
    /\ expanded' = expand_tiling(layer.data, map_w, map_h)
    /\ pc' = "layer_expanded"
    /\ UNCHANGED <<cell_grid, map_w, map_h, layer, rleVars, deltaVars, animVars, tileVars, keyVars, cartVars, poolVars, minVars>>

NextLayer == EncodeLayer \/ ExpandTiling

SpecLayer == InitLayer /\ [][NextLayer]_vars

\* sizes of the encodings available for the grid
LayerSizes ==
    {Len(layer.rle), Len(layer.packbits)}
    \cup (IF layer.tiling # <<>> THEN {Len(tiling_data(layer.tiling))} ELSE {})

\* the returned bytes are the smallest available encoding, the mode names them,
\* and no earlier mode is as small
SmallestReturned ==
    /\ Len(layer.data) <= Len(layer.rle)
    /\ Len(layer.data) = SetMin(LayerSizes)
    /\ layer.mode \in {0, 1, 2}
    /\ layer.mode = 0 => layer.data = layer.rle
    /\ layer.mode = 1 =>
          /\ layer.tiling # <<>>
          /\ layer.data = tiling_data(layer.tiling)
          /\ Len(layer.data) < Len(layer.rle)
    /\ layer.mode = 2 =>
          /\ layer.data = layer.packbits
          /\ Len(layer.data) < Len(layer.rle)
          /\ layer.tiling # <<>> => Len(layer.data) < Len(tiling_data(layer.tiling))

\* C5: for every cell grid encode_layer returns the byte-smallest of plain RLE,
\* periodic tiling (when available) and PackBits, never larger than plain RLE,
\* the earlier mode kept on equal sizes, the mode number matching the bytes
LayerSmallest ==
    pc \in {"layer_encoded", "layer_error"} =>
        (pc = "layer_encoded" /\ SmallestReturned)

\* whenever encode_layer returns, what it returns is the smallest encoding
LayerSmallestWhenReturned ==
    pc = "layer_encoded" => SmallestReturned

\* a tiling kept although PackBits is as small
LayerTieReached ==
    /\ pc = "layer_encoded"
    /\ layer.mode = 1
    /\ Len(layer.packbits) = Len(layer.data)

\* the tiling payload does not fit its byte fields: encode_layer raises
LayerErrorReached ==
    /\ pc = "layer_error"
    /\ map_w = 300 /\ map_h = 3
    /\ layer.tiling[1] = 7
    /\ layer.tiling[6] = 300
    /\ Len(layer.rle) = 12

\* the 20x20 layer in which every cell is 5
AllFive == Rep(Rep(5, 20), 20)

\* C9: for the 20x20 all-5 layer plain RLE is 40 bytes ([5,20] per row), the
\* tiling found is 1x1 with cost 7, encode_layer selects mode 1 with payload
\* [1,1,0,0,20,20,5], and expanding the payload gives back the all-5 grid
AllFiveSelectsTiling ==
    (pc \in {"layer_encoded", "layer_error", "layer_expanded"} /\ cell_grid = AllFive) =>
        /\ pc # "layer_error"
        /\ layer.rle = Flatten(Rep(<<5, 20>>, 20))
        /\ Len(layer.rle) = 40
        /\ layer.tiling[1] = 7 /\ layer.tiling[2] = 1 /\ layer.tiling[3] = 1
        /\ layer.mode = 1
        /\ layer.data = <<1, 1, 0, 0, 20, 20, 5>>
        /\ pc = "layer_expanded" => expanded = AllFive

\* the all-5 layer encoded as a tiling and expanded again
AllFiveWitness ==
    /\ pc = "layer_expanded"
    /\ cell_grid = AllFive
    /\ layer.mode = 1
    /\ expanded = cell_grid

\* the grid is a 2x2 pattern repeated 10x10 times
IsTiled2x2 ==
    /\ map_w = 20 /\ map_h = 20
    /\ \A y \in 0..19 : \A x \in 0..19 :
          cell(cell_grid, x, y) = cell(cell_grid, x % 2, y % 2)

\* C10 as stated: every 2x2 pattern tiled 10x10 times makes encode_layer
\* select periodic tiling (mode 1)
TiledPatternSelectsTiling ==
    (pc \in {"layer_encoded", "layer_error"} /\ IsTiled2x2) =>
        (pc = "layer_encoded" /\ layer.mode = 1)

\* C10 amended: every 2x2 pattern with at least one non-zero cell, tiled 10x10
\* times, makes encode_layer select periodic tiling (mode 1); the all-zero
\* pattern gives an empty layer, for which tiling is unavailable
NonEmptyPatternSelectsTiling ==
    (pc \in {"layer_encoded", "layer_error"} /\ IsTiled2x2) =>
        IF NonEmpty(cell_grid, map_w, map_h) # {}
        THEN pc = "layer_encoded" /\ layer.mode = 1
        ELSE pc = "layer_encoded" /\ layer.mode # 1 /\ layer.tiling = <<>>

\* a pattern with empty and non-empty cells selected as a 2x2 tiling
NonEmptyPatternWitness ==
    /\ pc = "layer_encoded" /\ IsTiled2x2
    /\ cell(cell_grid, 0, 0) = 0
    /\ cell(cell_grid, 1, 1) # 0
    /\ layer.mode = 1
    /\ layer.data[1] = 2 /\ layer.data[2] = 2

-----------------------------------------------------------------------------
(* TileDeduplicator: remap_tile_colors, apply_transform, slice_tileset,     *)
(* slice_bg_tileset.  A source tile is a row-major sequence of TILE_SIZE x  *)
(* TILE_SIZE pixels <<luminance, alpha>>; md5 digests of pixel buffers are  *)
(* compared as the buffers themselves.                                      *)

\* one clockwise quarter turn: row x of the result is column x read bottom-up
rot_cw(p) ==
    Tup([k \in 1..Len(p) |->
        LET r == (k - 1) \div TILE_SIZE
            c == (k - 1) % TILE_SIZE
        IN  p[((TILE_SIZE - 1 - c) * TILE_SIZE) + r + 1]])

\* grid[::-1]
flip_v(p) ==
    Tup([k \in 1..Len(p) |->
        LET r == (k - 1) \div TILE_SIZE
            c == (k - 1) % TILE_SIZE
        IN  p[((TILE_SIZE - 1 - r) * TILE_SIZE) + c + 1]])

\* [row[::-1] for row in grid]
flip_h(p) ==
    Tup([k \in 1..Len(p) |->
        LET r == (k - 1) \div TILE_SIZE
            c == (k - 1) % TILE_SIZE
        IN  p[(r * TILE_SIZE) + (TILE_SIZE - 1 - c) + 1]])

\* n clockwise quarter turns
RECURSIVE rotate(_, _)
rotate(p, n) == IF n = 0 THEN p ELSE rotate(rot_cw(p), n - 1)

\* rotate, then vflip, then hflip
apply_transform(px, rot, hflip, vflip) ==
    LET g1 == rotate(px, rot % 4)
        g2 == IF vflip THEN flip_v(g1) ELSE g1
    IN  IF hflip THEN flip_h(g2) ELSE g2

\* colour of one <<lum, alpha>> pixel: TRANS below alpha 128, else the colour of
\* the first band holding lum, else the last band's colour
remap_pixel(px, band_colors) ==
    LET lum   == px[1]
        alpha == px[2]
        hits  == {i \in 1..Len(BAND_RANGES) :
                    BAND_RANGES[i][1] <= lum /\ lum <= BAND_RANGES[i][2]}
    IN  IF alpha < 128 THEN TRANS
        ELSE IF hits = {} THEN band_colors[Len(band_colors)]
        ELSE band_colors[SetMin(hits)]

remap_tile_colors(tile_img, band_colors) ==
    Tup([i \in 1..Len(tile_img) |-> remap_pixel(tile_img[i], band_colors)])

\* `all(p[3] == 0 for p in pixels)`
fully_transparent(tile_img) == \A i \in 1..Len(tile_img) : tile_img[i][2] = 0

\* the dihedral check with the mirrored transforms left out
is_dup_rotations_only(tile_img, seen, band_colors) ==
    \E rot \in 0..3 :
        remap_tile_colors(rotate(tile_img, rot), band_colors) \in seen

\* "Check 8 dihedral transforms for duplicates": tile.rotate(-rot * 90), then
\* FLIP_LEFT_RIGHT when flip, hashed after remap and looked up in seen_hashes
is_dup(tile_img, seen, band_colors) ==
    \E rot \in 0..3 : \E flip \in {FALSE, TRUE} :
        LET t0 == rotate(tile_img, rot)
            t  == IF flip THEN flip_h(t0) ELSE t0
        IN  remap_tile_colors(t, band_colors) \in seen

\* body of the loops over the sheet; st = [tiles, seen]
slice_step(st, tile_img, band_colors, dihedral) ==
    LET h == remap_tile_colors(tile_img, band_colors)
    IN  IF fully_transparent(tile_img) THEN st
        ELSE IF h \in st.seen THEN st
        ELSE IF dihedral /\ is_dup(tile_img, st.seen, band_colors) THEN st
        ELSE [tiles |-> Append(st.tiles, tile_img), seen |-> st.seen \cup {h}]

\* the loop over tiles lo..hi of the sheet, in order
RECURSIVE slice_loop(_, _, _, _, _, _)
slice_loop(st, imgs, lo, hi, band_colors, dihedral) ==
    IF lo > hi THEN st
    ELSE IF lo = hi THEN slice_step(st, imgs[lo], band_colors, dihedral)
    ELSE LET mid == (lo + hi) \div 2
         IN  CHOOSE r \in {slice_loop(m, imgs, mid + 1, hi, band_colors, dihedral) :
                             m \in {slice_loop(st, imgs, lo, mid, band_colors, dihedral)}} :
                 TRUE

\* the tiles kept from the main tileset image (their names left out)
slice_tileset(imgs, band_colors) ==
    slice_loop([tiles |-> <<>>, seen |-> {}], imgs, 1, Len(imgs), band_colors, TRUE).tiles

\* the tiles kept from the BG tileset image
slice_bg_tileset(imgs, band_colors) ==
    slice_loop([tiles |-> <<>>, seen |-> {}], imgs, 1, Len(imgs), band_colors, FALSE).tiles

-----------------------------------------------------------------------------
(* build_level_data: the runtime tile pool and the cell grids.  Layer 0 is  *)
(* BG, layer 1 is Main; a dict is a function on its keys.                    *)

\* d.get(k, dflt)
get(d, k, dflt) == IF k \in DOMAIN d THEN d[k] ELSE dflt

\* d[k] = v
put(d, k, v) == [x \in (DOMAIN d) \cup {k} |-> IF x = k THEN v ELSE d[x]]

\* map_grids[L][y][x] / xform_grids[L][y][x] for 0-based L, x, y
grid_at(grids, L, x, y) == grids[L + 1][y + 1][x + 1]

\* Step 1: tile indices of layer L used with rot in {0, 2} (base) or {1, 3} (rot90)
used_tiles(md, L, odd) ==
    {grid_at(md.map_grids, L, x, y) :
        <<x, y>> \in {c \in (0..(md.map_w - 1)) \X (0..(md.map_h - 1)) :
            /\ grid_at(md.map_grids, L, c[1], c[2]) # 255
            /\ ((grid_at(md.xform_grids, L, c[1], c[2]) % 4) % 2 = 1) = odd}}

\* add_tile_variant without the search for an existing entry
add_tile_variant_always_new(pool, px, L, ti, is_rot90, editor_flags) ==
    LET id == Len(pool.rt_tiles) + 1
        p1 == IF is_rot90
              THEN [pool EXCEPT !.rot90_rt[L + 1] = put(@, ti, id)]
              ELSE [pool EXCEPT !.base_rt[L + 1] = put(@, ti, id)]
        p2 == [p1 EXCEPT !.rt_tiles = Append(@, px)]
    IN  IF L = 1
        THEN [p2 EXCEPT !.rt_tile_flags =
                 put(@, id, IF ti < Len(editor_flags) THEN editor_flags[ti + 1] ELSE 0)]
        ELSE p2

\* add_tile_variant(pixels, L, ti, is_rot90) on the pool
\* pool = [rt_tiles, base_rt, rot90_rt, rt_tile_flags]
add_tile_variant(pool, px, L, ti, is_rot90, editor_flags) ==
    LET hits  == {i \in 1..Len(pool.rt_tiles) : pool.rt_tiles[i] = px}
        id    == IF hits # {} THEN SetMin(hits) ELSE Len(pool.rt_tiles) + 1
        p1    == IF is_rot90
                 THEN [pool EXCEPT !.rot90_rt[L + 1] = put(@, ti, id)]
                 ELSE [pool EXCEPT !.base_rt[L + 1] = put(@, ti, id)]
    IN  IF hits # {} THEN p1
        ELSE LET p2 == [p1 EXCEPT !.rt_tiles = Append(@, px)]
             IN  IF L = 1
                 THEN [p2 EXCEPT !.rt_tile_flags =
                          put(@, id, IF ti < Len(editor_flags)
                                     THEN editor_flags[ti + 1] ELSE 0)]
                 ELSE p2

\* process_tile taking the last tile of the tileset for an index beyond it
process_tile_clamped(pool, ts, md, L, ti, band_colors) ==
    LET base == remap_tile_colors(ts[Min(ti + 1, Len(ts))], band_colors)
        p1   == IF ti \in used_tiles(md, L, FALSE)
                THEN add_tile_variant(pool, base, L, ti, FALSE, md.flags)
                ELSE pool
    IN  IF ti \in used_tiles(md, L, TRUE)
        THEN add_tile_variant(p1, apply_transform(base, 1, FALSE, FALSE),
                              L, ti, TRUE, md.flags)
        ELSE p1

\* body of `for ti in all_used` of process_layer_tiles
process_tile(pool, ts, md, L, ti, band_colors) ==
    IF ti >= Len(ts) THEN pool
    ELSE LET base == remap_tile_colors(ts[ti + 1], band_colors)
             p1   == IF ti \in used_tiles(md, L, FALSE)
                     THEN add_tile_variant(pool, base, L, ti, FALSE, md.flags)
                     ELSE pool
         IN  IF ti \in used_tiles(md, L, TRUE)
             THEN add_tile_variant(p1, apply_transform(base, 1, FALSE, FALSE),
                                   L, ti, TRUE, md.flags)
             ELSE p1

\* `for ti in all_used` over positions lo..hi, in order
RECURSIVE process_loop(_, _, _, _, _, _, _, _)
process_loop(pool, ts, md, L, all_used, lo, hi, band_colors) ==
    IF lo > hi THEN pool
    ELSE IF lo = hi THEN process_tile(pool, ts, md, L, all_used[lo], band_colors)
    ELSE LET mid == (lo + hi) \div 2
         IN  CHOOSE r \in {process_loop(m, ts, md, L, all_used, mid + 1, hi, band_colors) :
                             m \in {process_loop(pool, ts, md, L, all_used, lo, mid,
                                                 band_colors)}} : TRUE

\* process_layer_tiles(L)
process_layer_tiles(pool, ts, md, L, band_colors) ==
    LET all_used == Sorted(used_tiles(md, L, FALSE) \cup used_tiles(md, L, TRUE))
    IN  process_loop(pool, ts, md, L, all_used, 1, Len(all_used), band_colors)

\* editor_to_cell(L, ti, xf)
editor_to_cell(pool, L, ti, xf) ==
    LET rot   == xf % 4
        hflip == (xf \div 4) % 2 = 1
        vflip == (xf \div 8) % 2 = 1
        rt_id == IF rot = 0 \/ rot = 2
                 THEN get(pool.base_rt[L + 1], ti, 0)
                 ELSE get(pool.rot90_rt[L + 1], ti, 0)
        fx    == IF rot >= 2 THEN (IF hflip THEN 0 ELSE 1) ELSE (IF hflip THEN 1 ELSE 0)
        fy    == IF rot >= 2 THEN (IF vflip THEN 0 ELSE 1) ELSE (IF vflip THEN 1 ELSE 0)
    IN  IF ti = 255 THEN 0
        ELSE IF rt_id = 0 THEN 0
        ELSE IF L = 0 THEN rt_id
        ELSE (rt_id * 4) + (fx * 2) + fy

\* Step 4: the cell grid of layer L
cell_grid_of(pool, md, L) ==
    Tup([y \in 1..md.map_h |-> Tup([x \in 1..md.map_w |->
            editor_to_cell(pool, L, md.map_grids[L + 1][y][x],
                           md.xform_grids[L + 1][y][x])])])

\* the dict with no key
empty_dict == [k \in {} |-> 0]

\* one entity record as its 4 bytes
entity_bytes(ent) == <<ent[1] % 256, ent[2] % 256, ent[3] % 256, ent[4] % 256>>

\* the "out of range ... skipping" warnings of process_layer_tiles(L), one per
\* used tile index beyond the tileset
range_warnings(ts, md, L) ==
    {<<"tile_out_of_range", L, ti>> :
        ti \in {t \in used_tiles(md, L, FALSE) \cup used_tiles(md, L, TRUE) :
                    t >= Len(ts)}}

\* the limit messages printed after both layers are processed
limit_warnings(pool, num_spr_tiles) ==
    LET num_rt       == Len(pool.rt_tiles)
        main_rt_ids  == {pool.base_rt[2][t] : t \in DOMAIN pool.base_rt[2]}
                        \cup {pool.rot90_rt[2][t] : t \in DOMAIN pool.rot90_rt[2]}
        max_main_rt  == IF main_rt_ids # {} THEN SetMax(main_rt_ids) ELSE 0
        num_bg_tiles == num_rt - num_spr_tiles
    IN  (IF num_spr_tiles > SPRITE_SHEET_TILES
         THEN {<<"sprite_sheet_limit", 1, num_spr_tiles>>} ELSE {})
        \cup (IF max_main_rt > MAIN_RT_LIMIT
              THEN {<<"main_rt_limit", 1, max_main_rt>>} ELSE {})
        \cup (IF num_bg_tiles * 128 > BG_USER_MEMORY
              THEN {<<"bg_user_memory", 0, num_bg_tiles>>} ELSE {})

\* `if total_bytes > 4096: print(... exceeds 4096 by ...)`
map_overflow(total_bytes) ==
    IF total_bytes > MAP_REGION_BYTES
    THEN {<<"map_overflow", 0, total_bytes - MAP_REGION_BYTES>>} ELSE {}

\* build_level_data(tileset, bg_tileset, map_data) with the module's BAND_COLORS
\* on entry; band_colors in the result is BAND_COLORS on exit, err names the
\* exception raised ("" when the function returns)
build_level_data(ts_main, ts_bg, md, band_colors0) ==
    LET num_layers == Len(md.map_grids)
        bc    == IF md.band_colors # <<>> /\ Len(md.band_colors) = Len(band_colors0)
                 THEN md.band_colors ELSE band_colors0
        pool0 == [rt_tiles |-> <<>>, base_rt |-> <<empty_dict, empty_dict>>,
                  rot90_rt |-> <<empty_dict, empty_dict>>, rt_tile_flags |-> empty_dict]
        pool1 == process_layer_tiles(pool0, ts_main, md, 1, bc)
        num_spr_tiles == Len(pool1.rt_tiles)
        pool  == process_layer_tiles(pool1, ts_bg, md, 0, bc)
        num_rt == Len(pool.rt_tiles)
        all_pixels == Flatten(pool.rt_tiles)
        tile_blob  == ext_nibble_rle_encode(all_pixels, 4)
        grids  == Tup([L1 \in 1..num_layers |-> cell_grid_of(pool, md, L1 - 1)])
        layers == Tup([L1 \in 1..num_layers |->
                          encode_layer(grids[L1], md.map_w, md.map_h)])
        sx == IF md.spawn_x >= 0 THEN md.spawn_x ELSE 65535
        sy == IF md.spawn_y >= 0 THEN md.spawn_y ELSE 65535
        layer_modes == Tup([L1 \in 1..num_layers |-> layers[L1].mode])
        header == <<num_rt, num_layers>> \o u16(md.map_w) \o u16(md.map_h)
                  \o u16(sx) \o u16(sy) \o u16(Len(tile_blob)) \o layer_modes
        map_section ==
            header \o tile_blob
            \o Flatten([L1 \in 1..num_layers |-> layers[L1].data])
            \o <<Len(md.entities)>>
            \o Flatten([e \in 1..Len(md.entities) |-> entity_bytes(md.entities[e])])
        warnings == range_warnings(ts_main, md, 1) \cup range_warnings(ts_bg, md, 0)
                    \cup limit_warnings(pool, num_spr_tiles)
        failed(e) == [err |-> e, band_colors |-> bc, rt_tiles |-> pool.rt_tiles,
                      warnings |-> warnings,
                      num_spr_tiles |-> num_spr_tiles, base_rt |-> pool.base_rt,
                      rot90_rt |-> pool.rot90_rt, rt_tile_flags |-> pool.rt_tile_flags,
                      cell_grids |-> <<>>, layer_modes |-> <<>>, layer_data |-> <<>>,
                      tile_blob |-> <<>>, map_section |-> <<>>]
    IN  IF all_pixels = <<>> THEN failed("IndexError")
        ELSE IF \E L1 \in 1..num_layers : layers[L1].err THEN failed("ValueError")
        ELSE IF ~is_bytes(<<num_rt, num_layers, Len(md.entities)>>) THEN failed("ValueError")
        ELSE [err |-> "", band_colors |-> bc, rt_tiles |-> pool.rt_tiles,
              warnings |-> warnings \cup map_overflow(Len(map_section)),
              num_spr_tiles |-> num_spr_tiles, base_rt |-> pool.base_rt,
              rot90_rt |-> pool.rot90_rt, rt_tile_flags |-> pool.rt_tile_flags,
              cell_grids |-> grids, layer_modes |-> layer_modes,
              layer_data |-> Tup([L1 \in 1..num_layers |-> layers[L1].data]),
              tile_blob |-> tile_blob, map_section |-> map_section]

-----------------------------------------------------------------------------
(* Levels: sheets of source tiles and small maps *)

\* a 2x2 pattern <<p00, p01, p10, p11>> of source pixels drawn as a tile, each
\* pattern pixel covering a quarter of the tile
Quartered(seed) ==
    Tup([k \in 1..(TILE_SIZE * TILE_SIZE) |->
        LET r == ((k - 1) \div TILE_SIZE) \div (TILE_SIZE \div 2)
            c == ((k - 1) % TILE_SIZE) \div (TILE_SIZE \div 2)
        IN  seed[(r * 2) + c + 1]])

\* source pixels <<luminance, alpha>>: bands 0, 1, 1 and 4 opaque, and two
\* transparent ones (alpha 0, and alpha below 128)
PxA == <<10, 255>>
PxB == <<30, 255>>
PxB2 == <<40, 255>>
PxC == <<200, 255>>
PxClear == <<0, 0>>
PxFaint == <<200, 100>>

\* a tile without symmetry, its mirror image, a tile equal to it after remap
TileAsym  == Quartered(<<PxA, PxB, PxC, PxB>>)
TileAsymH == Quartered(<<PxB, PxA, PxB, PxC>>)
TileAsym2 == Quartered(<<PxA, PxB2, PxC, PxB2>>)
\* a uniform tile, a tile equal to its half turn only
TileSym   == Quartered(<<PxA, PxA, PxA, PxA>>)
TileDiag  == Quartered(<<PxA, PxB, PxB, PxA>>)
\* a fully transparent tile and one whose pixels all remap to TRANS
TileClear == Quartered(<<PxClear, PxClear, PxClear, PxClear>>)
TileFaint == Quartered(<<PxFaint, PxFaint, PxFaint, PxFaint>>)

MainSheets ==
    { <<TileAsym, TileSym>>, <<TileAsym, TileAsymH>>,
      <<TileDiag, TileAsym2>>, <<TileClear, TileAsym>> }

BgSheets ==
    { <<TileAsym, TileAsymH>>, <<TileFaint, TileSym>>, <<TileAsym, TileAsym2>> }

\* bandColors of the level: absent, or bands 1 and 4 given the same colour
BandOverrides == { <<>>, <<0, 7, 13, 6, 7>> }

\* (tile index, packed transform) of a cell: every transform of tile 0, tile 1
\* plain and transformed, the empty cell, and an index beyond the tileset
VariedCells ==
    ({0} \X (0..15)) \cup {<<1, 0>>, <<1, 5>>, <<255, 0>>, <<2, 0>>}

\* the other cells of the row: empty, tile 0 unrotated, tile 0 rotated by 90
PlainCells == {<<255, 0>>, <<0, 0>>, <<0, 1>>}

\* one-row layers: the first cell varied, the others plain
VariedRows ==
    {<<v>> \o tail : v \in VariedCells, tail \in [1..(MaxMapW - 1) -> PlainCells]}

\* one-row layers: the first cell empty or tile 0, the others empty
QuietRows ==
    {<<v>> \o Rep(<<255, 0>>, MaxMapW - 1) : v \in {<<255, 0>>, <<0, 0>>}}

LevelMap(bg, main, bands) ==
    [map_w |-> MaxMapW, map_h |-> 1,
     map_grids   |-> << <<Tup([x \in 1..MaxMapW |-> bg[x][1]])>>,
                        <<Tup([x \in 1..MaxMapW |-> main[x][1]])>> >>,
     xform_grids |-> << <<Tup([x \in 1..MaxMapW |-> bg[x][2]])>>,
                        <<Tup([x \in 1..MaxMapW |-> main[x][2]])>> >>,
     spawn_x |-> -1, spawn_y |-> -1,
     flags |-> <<1, 2>> \o Rep(0, 254),
     band_colors |-> bands, entities |-> <<>>]

LevelMaps ==
    {LevelMap(bg, main, bands) : bg \in VariedRows, main \in QuietRows, bands \in BandOverrides}
    \cup {LevelMap(bg, main, bands) : bg \in QuietRows, main \in VariedRows, bands \in BandOverrides}

\* tile k of the crowded sheet: a white corner, a dark grey pixel next to it and
\* one transparent pixel whose place tells the tiles apart; no two of them, and
\* no tile and a rotation of another, are related by a dihedral transform
CrowdedTile(k) ==
    Tup([i \in 1..(TILE_SIZE * TILE_SIZE) |->
        IF i = 1 THEN PxC ELSE IF i = 2 THEN PxB
        ELSE IF i = k + 3 THEN PxClear ELSE PxA])

\* as many Main tiles as fill the Main budget when each is used unrotated and
\* rotated by 90 degrees
CrowdedCount == (MAIN_RT_LIMIT + 1) \div 2

CrowdedSheet == Tup([k \in 1..CrowdedCount |-> CrowdedTile(k - 1)])

\* a one-row level whose Main layer uses the first n tiles unrotated and rotated
\* by 90 degrees (2n pool entries), the other cells and the BG layer empty
CrowdedMap(n) ==
    LET w == 2 * CrowdedCount
    IN  [map_w |-> w, map_h |-> 1,
         map_grids   |-> << <<Rep(255, w)>>,
                            <<Tup([x \in 1..w |->
                                IF x <= 2 * n THEN (x - 1) \div 2 ELSE 255])>> >>,
         xform_grids |-> << <<Rep(0, w)>>,
                            <<Tup([x \in 1..w |-> (x - 1) % 2])>> >>,
         spawn_x |-> -1, spawn_y |-> -1,
         flags |-> Rep(0, 256),
         band_colors |-> <<>>, entities |-> <<>>]

\* one level within the Main budget and one a single pool entry over it
CrowdedMaps == {CrowdedMap(CrowdedCount - 1), CrowdedMap(CrowdedCount)}

\* the levels built from a sheet
MapsFor(sh) == IF sh = CrowdedSheet THEN CrowdedMaps ELSE LevelMaps

InitTiles ==
    /\ pc = "tiles_input"
    /\ BAND_COLORS = BAND_COLORS_default
    /\ \/ sheet \in MainSheets /\ bg_sheet \in BgSheets
       \/ sheet = CrowdedSheet /\ bg_sheet = <<TileAsym, TileAsymH>>
    /\ map_data = <<>>
    /\ tileset = <<>> /\ bg_tileset = <<>> /\ level = <<>>
    /\ RleIdle /\ DeltaIdle /\ AnimIdle /\ LayerIdle /\ KeyIdle /\ CartIdle /\ PoolIdle /\ MinIdle

\* tileset = slice_tileset()
SliceTileset ==
    /\ pc = "tiles_input"
    /\ tileset' = slice_tileset(sheet, BAND_COLORS)
    /\ pc' = "main_sliced"
    /\ UNCHANGED <<BAND_COLORS, sheet, bg_sheet, bg_tileset, map_data, level,
                   rleVars, deltaVars, animVars, layerVars, keyVars, cartVars, poolVars, minVars>>

\* bg_tileset = slice_bg_tileset()
SliceBgTileset ==
    /\ pc = "main_sliced"
    /\ bg_tileset' = slice_bg_tileset(bg_sheet, BAND_COLORS)
    /\ pc' = "tiles_sliced"
    /\ UNCHANGED <<BAND_COLORS, sheet, bg_sheet, tileset, map_data, level,
                   rleVars, deltaVars, animVars, layerVars, keyVars, cartVars, poolVars, minVars>>

\* map_data = read_level_json(...), then
\* build_level_data(tileset, bg_tileset, map_data)
BuildLevelData ==
    /\ pc = "tiles_sliced"
    /\ \E md \in MapsFor(sheet) :
          /\ map_data' = md
          /\ level' = build_level_data(tileset, bg_tileset, md, BAND_COLORS)
    /\ BAND_COLORS' = level'.band_colors
    /\ pc' = IF level'.err = "" THEN "level_built" ELSE "level_error"
    /\ UNCHANGED <<sheet, bg_sheet, tileset, bg_tileset,
                   rleVars, deltaVars, animVars, layerVars, keyVars, cartVars, poolVars, minVars>>

NextTiles == SliceTileset \/ SliceBgTileset \/ BuildLevelData

SpecTiles == InitTiles /\ [][NextTiles]_vars

\* what the runtime draws for a cell byte: BG cells name the pool entry, Main
\* cells carry the entry in the upper 6 bits, flip-x in bit 1 and flip-y in bit 0
shown_tile(L, cell_byte, rt_tiles) ==
    IF L = 0 THEN rt_tiles[cell_byte]
    ELSE LET t  == rt_tiles[cell_byte \div 4]
             t1 == IF (cell_byte \div 2) % 2 = 1 THEN flip_h(t) ELSE t
         IN  IF cell_byte % 2 = 1 THEN flip_v(t1) ELSE t1

layer_tilesets(L) == IF L = 0 THEN bg_tileset ELSE tileset

\* every cell of layer L with an in-range tile index shows the tile remapped and
\* transformed as the level data asks
CellsShowTransform(L) ==
    \A y \in 0..(map_data.map_h - 1) : \A x \in 0..(map_data.map_w - 1) :
        LET ti == grid_at(map_data.map_grids, L, x, y)
            xf == grid_at(map_data.xform_grids, L, x, y)
            cell_byte == level.cell_grids[L + 1][y + 1][x + 1]
        IN  (ti # 255 /\ ti < Len(layer_tilesets(L))) =>
                /\ cell_byte # 0
                /\ shown_tile(L, cell_byte, level.rt_tiles) =
                      apply_transform(
                          remap_tile_colors(layer_tilesets(L)[ti + 1], BAND_COLORS),
                          xf % 4, (xf \div 4) % 2 = 1, (xf \div 8) % 2 = 1)

\* C6: for every non-empty cell of every layer, the runtime tile named by the
\* cell byte of editor_to_cell, with the cell's flip bits applied (none on the
\* BG layer), is pixel-identical to apply_transform(remap(tile), rot, hflip, vflip)
CellShowsRequestedTransform ==
    pc = "level_built" => (CellsShowTransform(0) /\ CellsShowTransform(1))

\* the Main layer alone does show every requested transform
MainCellShowsRequestedTransform ==
    pc = "level_built" => CellsShowTransform(1)

\* a Main cell rotated by 270 degrees and flipped, drawn from the rot90 entry
MainTransformReached ==
    /\ pc = "level_built"
    /\ grid_at(map_data.map_grids, 1, 0, 0) = 0
    /\ grid_at(map_data.xform_grids, 1, 0, 0) = 7
    /\ level.cell_grids[2][1][1] # 0
    /\ CellsShowTransform(1)

\* a BG cell asking for a mirrored tile shows the tile unmirrored
BgFlipDropped ==
    /\ pc = "level_built"
    /\ grid_at(map_data.map_grids, 0, 0, 0) = 0
    /\ grid_at(map_data.xform_grids, 0, 0, 0) = 4
    /\ level.cell_grids[1][1][1] # 0
    /\ level.rt_tiles[level.cell_grids[1][1][1]] =
          remap_tile_colors(bg_tileset[1], BAND_COLORS)
    /\ ~CellsShowTransform(0)

\* q is p under one of the 8 dihedral transforms
Dihedral(p, q) ==
    \E rot \in 0..3 : \E flip \in {FALSE, TRUE} :
        q = (IF flip THEN flip_h(rotate(p, rot)) ELSE rotate(p, rot))

MainTilesetCanonical ==
    /\ \A i \in 1..Len(tileset) : \A j \in 1..Len(tileset) :
          i # j => ~Dihedral(remap_tile_colors(tileset[i], BAND_COLORS),
                             remap_tile_colors(tileset[j], BAND_COLORS))
    /\ \A k \in 1..Len(sheet) :
          fully_transparent(sheet[k]) \/
          \E i \in 1..Len(tileset) :
              Dihedral(remap_tile_colors(sheet[k], BAND_COLORS),
                       remap_tile_colors(tileset[i], BAND_COLORS))

\* slice_bg_tileset keeps one tile of every class of pixel-identical remapped tiles
BgTilesetExact ==
    /\ \A i \in 1..Len(bg_tileset) : \A j \in 1..Len(bg_tileset) :
          i # j => remap_tile_colors(bg_tileset[i], BAND_COLORS)
                   # remap_tile_colors(bg_tileset[j], BAND_COLORS)
    /\ \A k \in 1..Len(bg_sheet) :
          fully_transparent(bg_sheet[k]) \/
          \E i \in 1..Len(bg_tileset) :
              remap_tile_colors(bg_sheet[k], BAND_COLORS)
              = remap_tile_colors(bg_tileset[i], BAND_COLORS)

\* the pool holds each pixel buffer once; the unrotated and the rotated variant
\* of a tile share an entry exactly when their pixel buffers are equal
PoolExact ==
    /\ \A i \in 1..Len(level.rt_tiles) : \A j \in 1..Len(level.rt_tiles) :
          i # j => level.rt_tiles[i] # level.rt_tiles[j]
    /\ \A L \in {0, 1} :
          \A ti \in (DOMAIN level.base_rt[L + 1]) \cap (DOMAIN level.rot90_rt[L + 1]) :
              LET base == remap_tile_colors(layer_tilesets(L)[ti + 1], BAND_COLORS)
              IN  /\ level.rt_tiles[level.base_rt[L + 1][ti]] = base
                  /\ level.rt_tiles[level.rot90_rt[L + 1][ti]] = rot_cw(base)
                  /\ (level.base_rt[L + 1][ti] = level.rot90_rt[L + 1][ti])
                        <=> (rot_cw(base) = base)

BgMirrorTwoEntries ==
    /\ pc = "level_built"
    /\ Len(level.rt_tiles) = 2
    /\ level.num_spr_tiles = 0
    /\ level.rt_tiles[2] = flip_h(level.rt_tiles[1])

-----------------------------------------------------------------------------
(* Tile budgets *)

\* the level needs more Main pool entries than a Main cell byte can name, more
\* sprite-sheet tiles than fit, or more pool entries than the header byte holds
OverTileBudget ==
    \/ level.num_spr_tiles > SPRITE_SHEET_TILES
    \/ \E w \in level.warnings : w[1] = "main_rt_limit"
    \/ Len(level.rt_tiles) > 255

\* C11: when a tile budget is exceeded build_level_data reports it and still
\* completes, returning a map section, instead of failing with an error
OverBudgetStillBuilds ==
    (pc \in {"level_built", "level_error"} /\ OverTileBudget) =>
        /\ level.err = ""
        /\ level.map_section # <<>>
        /\ level.warnings # {}

\* the limit is reported and the build then ends in ValueError
OverBudgetRaises ==
    /\ pc = "level_error"
    /\ level.err = "ValueError"
    /\ <<"main_rt_limit", 1, MAIN_RT_LIMIT + 1>> \in level.warnings
    /\ Len(level.rt_tiles) = MAIN_RT_LIMIT + 1

\* a level filling the Main budget exactly is built without a warning
AtBudgetBuilds ==
    /\ pc = "level_built"
    /\ Len(level.rt_tiles) = MAIN_RT_LIMIT - 1
    /\ level.warnings = {}
    /\ level.cell_grids[2][1][2 * (CrowdedCount - 1)] = ((MAIN_RT_LIMIT - 1) * 4)

-----------------------------------------------------------------------------
(* Tile indices beyond the tileset *)

\* cell (x, y) of layer L names a tile index beyond the layer's tileset
OutOfRange(md, L, x, y) ==
    /\ grid_at(md.map_grids, L, x, y) # 255
    /\ grid_at(md.map_grids, L, x, y) >= Len(layer_tilesets(L))

OutOfRangeCells(md) ==
    {c \in {0, 1} \X (0..(md.map_w - 1)) \X (0..(md.map_h - 1)) :
        OutOfRange(md, c[1], c[2], c[3])}

\* the level with every out-of-range cell made empty
Blanked(md) ==
    [md EXCEPT !.map_grids =
        Tup([L1 \in 1..Len(md.map_grids) |->
            Tup([y1 \in 1..md.map_h |->
                Tup([x1 \in 1..md.map_w |->
                    IF OutOfRange(md, L1 - 1, x1 - 1, y1 - 1) THEN 255
                    ELSE md.map_grids[L1][y1][x1]])])])]

\* C12: a cell whose tile index is beyond the layer's tileset gets no runtime
\* tile, a warning naming the index is emitted, the cell is encoded as 0, and
\* the level is otherwise built exactly as if that cell had been empty
OutOfRangeDropped ==
    (pc \in {"level_built", "level_error"} /\ OutOfRangeCells(map_data) # {}) =>
        LET as_empty == build_level_data(tileset, bg_tileset, Blanked(map_data),
                                         BAND_COLORS_default)
            named == {<<"tile_out_of_range", c[1],
                        grid_at(map_data.map_grids, c[1], c[2], c[3])>> :
                         c \in OutOfRangeCells(map_data)}
        IN  /\ named \subseteq level.warnings
            /\ \A c \in OutOfRangeCells(map_data) :
                  LET ti == grid_at(map_data.map_grids, c[1], c[2], c[3])
                  IN  /\ ti \notin DOMAIN level.base_rt[c[1] + 1]
                      /\ ti \notin DOMAIN level.rot90_rt[c[1] + 1]
                      /\ level.err = "" =>
                            level.cell_grids[c[1] + 1][c[3] + 1][c[2] + 1] = 0
            /\ named \cap as_empty.warnings = {}
            /\ [level EXCEPT !.warnings = @ \ named] = as_empty

\* a built level with a Main cell beyond the tileset next to a cell that is drawn
OutOfRangeDroppedWitness ==
    /\ pc = "level_built"
    /\ OutOfRange(map_data, 1, 0, 0)
    /\ level.cell_grids[2][1][1] = 0
    /\ level.cell_grids[2][1][2] # 0
    /\ <<"tile_out_of_range", 1, grid_at(map_data.map_grids, 1, 0, 0)>>
          \in level.warnings
    /\ Len(level.rt_tiles) >= 1

-----------------------------------------------------------------------------
(* KeyframeSelector on its own: the candidates of an animation and the      *)
(* assignment of frames to keyframes for each candidate                     *)

\* longest animation whose candidates are enumerated
MaxKeyFrames == 17

\* frames of two pixels over two colours
TinyFrames == {<<a, b>> : a \in {1, 2}, b \in {1, 2}}

\* every animation of three tiny frames, and one animation of each length
KeyInputs ==
    [1..3 -> TinyFrames]
    \cup {Tup([i \in 1..n |-> <<1 + (i % 2), 1 + ((i \div 2) % 2)>>]) :
              n \in 1..MaxKeyFrames}

InitKeys ==
    /\ pc = "keys_input"
    /\ kf_frames \in {Tup(fs) : fs \in KeyInputs}
    /\ candidates = <<>> /\ kf_keys = <<>> /\ kf_kd = <<>>
    /\ RleIdle /\ DeltaIdle /\ AnimIdle /\ LayerIdle /\ TileIdle /\ CartIdle /\ PoolIdle /\ MinIdle

\* candidates = pick_keyframes_candidates(cropped)
PickKeyframes ==
    /\ pc = "keys_input"
    /\ candidates' = pick_keyframes_candidates(Len(kf_frames))
    /\ pc' = "keys_picked"
    /\ UNCHANGED <<kf_frames, kf_keys, kf_kd,
                   rleVars, deltaVars, animVars, layerVars, tileVars, cartVars, poolVars, minVars>>

\* one pass of `for key_indices in candidates` of encode_type0
EncodeWithKeys ==
    /\ pc = "keys_picked"
    /\ \E c \in 1..Len(candidates) :
          /\ kf_keys' = Tup(candidates[c])
          /\ kf_kd' = encode_kd_with_keys(kf_frames, candidates[c], 4)
    /\ pc' = "keys_encoded"
    /\ UNCHANGED <<kf_frames, candidates,
                   rleVars, deltaVars, animVars, layerVars, tileVars, cartVars, poolVars, minVars>>

NextKeys == PickKeyframes \/ EncodeWithKeys

SpecKeys == InitKeys /\ [][NextKeys]_vars

\* the sets of at most four, three and two of the indices 0..n-1, each as its
\* ascending sequence
UpToFour(n) ==
    {Sorted({a, b, c, d}) : a \in 0..(n - 1), b \in 0..(n - 1),
                            c \in 0..(n - 1), d \in 0..(n - 1)}
UpToThree(n) ==
    {Sorted({a, b, c}) : a \in 0..(n - 1), b \in 0..(n - 1), c \in 0..(n - 1)}
UpToTwo(n) == {Sorted({a, b}) : a \in 0..(n - 1), b \in 0..(n - 1)}

\* [0, s, 2s] with s = n div 3 and the same shifted by 1 and by 2 modulo n
Strided(n) ==
    LET s == n \div 3
    IN  {<<o % n, (s + o) % n, ((2 * s) + o) % n>> : o \in 0..2}

ExpectedCandidates(n) ==
    IF n <= 8 THEN UpToFour(n)
    ELSE IF n <= 12 THEN UpToThree(n)
    ELSE IF n <= 16 THEN UpToTwo(n) \cup Strided(n)
    ELSE UpToTwo(n)

\* C15: for n >= 1 frames pick_keyframes_candidates returns a non-empty list of
\* non-empty lists of distinct indices in 0..n-1, holding each of these once:
\* all combinations of sizes 1..min(4,n) when n <= 8, of sizes 1..3 when
\* 8 < n <= 12, of sizes 1..2 plus [0,s,2s] (s = n div 3) and its shifts by 1
\* and 2 modulo n when 12 < n <= 16, of sizes 1..2 when n > 16
CandidatesAsSpecified ==
    pc = "keys_picked" =>
        LET n == Len(kf_frames)
        IN  /\ Len(candidates) >= 1
            /\ \A c \in 1..Len(candidates) :
                  /\ Len(candidates[c]) >= 1
                  /\ \A i \in 1..Len(candidates[c]) :
                        /\ candidates[c][i] \in 0..(n - 1)
                        /\ \A j \in 1..Len(candidates[c]) :
                              i # j => candidates[c][i] # candidates[c][j]
            /\ {candidates[c] : c \in 1..Len(candidates)} = ExpectedCandidates(n)
            /\ Len(candidates) = Cardinality(ExpectedCandidates(n))

\* candidates picked for an animation long enough for the strided triples
CandidatesWitness ==
    /\ pc = "keys_picked"
    /\ Len(kf_frames) = 13
    /\ \E c \in 1..Len(candidates) : candidates[c] = <<2, 6, 10>>
    /\ Len(candidates) = 13 + 78 + 3

\* candidates with four keyframes for a short animation
CandidatesFourKeysReached ==
    /\ pc = "keys_picked"
    /\ Len(kf_frames) = 8
    /\ \E c \in 1..Len(candidates) : candidates[c] = <<0, 3, 5, 7>>

\* the number of positions where two frames of equal length differ
Hamming(a, b) == Cardinality({p \in 1..Len(a) : a[p] # b[p]})

\* the delta of frame i inside the data of encode_kd_with_keys
DeltaOf(res, i) ==
    SubSeq(res.data, res.delta_offsets[i] + 1,
           IF i < Len(res.delta_offsets) THEN res.delta_offsets[i + 1]
           ELSE Len(res.data))

\* C16: encode_kd_with_keys assigns every frame to a keyframe of least Hamming
\* distance among the keyframes of the list, the lowest position on ties, so a
\* frame equal to a keyframe gets a delta with zero differences
KeyAssignmentNearest ==
    pc = "keys_encoded" =>
        \A i \in 1..Len(kf_frames) :
            LET a    == kf_kd.assignments[i] + 1
                d(k) == Hamming(kf_frames[kf_keys[k] + 1], kf_frames[i])
            IN  /\ a \in 1..Len(kf_keys)
                /\ \A k \in 1..Len(kf_keys) : d(a) <= d(k)
                /\ \A k \in 1..(a - 1) : d(k) > d(a)
                /\ (\E k \in 1..Len(kf_keys) : d(k) = 0) => DeltaOf(kf_kd, i) = <<0>>

\* a frame as far from the second keyframe as from the first, assigned to the
\* first, and a frame equal to the second keyframe, assigned to it
KeyAssignmentWitness ==
    /\ pc = "keys_encoded"
    /\ Len(kf_frames) = 3 /\ kf_keys = <<0, 1>>
    /\ kf_frames[1] # kf_frames[2]
    /\ Hamming(kf_frames[1], kf_frames[3]) = 1
    /\ Hamming(kf_frames[2], kf_frames[3]) = 1
    /\ kf_kd.assignments = <<0, 1, 0>>
    /\ DeltaOf(kf_kd, 2) = <<0>>

-----------------------------------------------------------------------------
(* Malformed frame lengths *)

Malformed == \E k \in 1..Len(frames) : Len(frames[k]) # fw * fh

\* C13: encode_animation called with a frame shorter or longer than fw*fh, or
\* with frames of different lengths, ends in an error and returns no block
MalformedFramesFail ==
    (pc \in {"anim_encoded", "anim_error"} /\ Malformed) => pc = "anim_error"

\* a block returned for a frame with a pixel missing: the frame is encoded as
\* if the missing pixel were transparent
ShortFramePadded ==
    /\ pc = "anim_encoded"
    /\ frames = << <<1, 1, TRANS>> >>
    /\ anim.block = encode_animation(<< <<1, 1, TRANS, TRANS>> >>, fw, fh).block

\* a block returned for a frame with a pixel too many: the pixel is left out
LongFrameTruncated ==
    /\ pc = "anim_encoded"
    /\ frames = << <<TRANS, 1, 1, 1, TRANS>> >>
    /\ anim.block = encode_animation(<< <<TRANS, 1, 1, 1>> >>, fw, fh).block

\* malformed frames that do end in IndexError
MalformedRaises ==
    /\ pc = "anim_error"
    /\ Malformed
    /\ \E k \in 1..Len(frames) : \E i \in 1..Len(frames[k]) : frames[k][i] # TRANS

-----------------------------------------------------------------------------
(* build_cart: the sprite and map regions of the cartridge text *)

\* bytes of sprite memory; rows and bytes per row of the __gfx__ and __map__ text
SPRITE_REGION_BYTES == 8192
GFX_ROW_BYTES == 64
GFX_ROWS == 128
MAP_ROW_BYTES == 128
MAP_ROWS == 32

\* how far below and above a region's capacity the payload lengths go
MaxOver == 1

\* padded.extend(b'\x00' * (size - len(padded))): nothing is added when the
\* difference is negative
zero_extend(data, size) ==
    IF Len(data) < size THEN data \o Rep(0, size - Len(data)) ELSE data

\* padded[lo:hi] of a Python slice (0-based, clipped to the sequence)
py_slice(data, lo, hi) == SubSeq(data, lo + 1, Min(hi, Len(data)))

\* gfx_buf = bytearray(8192); gfx_buf[:len(char_chunk)] = char_chunk
fill_gfx_buf(chunk) ==
    chunk \o py_slice(Rep(0, SPRITE_REGION_BYTES), Len(chunk), SPRITE_REGION_BYTES)

\* one row of the __gfx__ text: each byte as its low hex digit, then its high
gfx_row(row_data) ==
    Tup([k \in 1..(2 * Len(row_data)) |->
        IF k % 2 = 1 THEN row_data[(k + 1) \div 2] % 16
        ELSE (row_data[k \div 2] \div 16) % 16])

bytes_to_gfx(data) ==
    LET padded == zero_extend(data, GFX_ROWS * GFX_ROW_BYTES)
    IN  Tup([row \in 1..GFX_ROWS |->
            gfx_row(py_slice(padded, (row - 1) * GFX_ROW_BYTES, row * GFX_ROW_BYTES))])

\* one row of the __map__ text: each byte as f"{b:02x}", high digit first
map_row(row_data) ==
    Tup([k \in 1..(2 * Len(row_data)) |->
        IF k % 2 = 1 THEN (row_data[(k + 1) \div 2] \div 16) % 16
        ELSE row_data[k \div 2] % 16])

\* bytes_to_map_hex without the padding to 4096 bytes
bytes_to_map_hex_unpadded(data) ==
    Tup([row \in 1..MAP_ROWS |->
        map_row(py_slice(data, (row - 1) * MAP_ROW_BYTES, row * MAP_ROW_BYTES))])

bytes_to_map_hex(data) ==
    LET padded == zero_extend(data, MAP_REGION_BYTES)
    IN  Tup([row \in 1..MAP_ROWS |->
            map_row(py_slice(padded, (row - 1) * MAP_ROW_BYTES, row * MAP_ROW_BYTES))])

\* `if total > 8192: print(... exceeds sprite memory by ...)`
sprite_overflow(total) ==
    IF total > SPRITE_REGION_BYTES
    THEN {<<"sprite_overflow", 0, total - SPRITE_REGION_BYTES>>} ELSE {}

\* a payload of len bytes, no two neighbours equal
Payload(len, seed) == Tup([i \in 1..len |-> ((i * 7) + seed) % 256])

PayloadLens(cap) == {3, cap \div 2} \cup ((cap - MaxOver)..(cap + MaxOver))

InitCart ==
    /\ pc = "cart_input"
    /\ \E len \in PayloadLens(SPRITE_REGION_BYTES), seed \in {1, 2} :
          char_chunk = Payload(len, seed)
    /\ \E len \in PayloadLens(MAP_REGION_BYTES) : cart_map = Payload(len, 5)
    /\ gfx_buf = <<>> /\ gfx = <<>> /\ map_hex = <<>> /\ cart_log = {}
    /\ RleIdle /\ DeltaIdle /\ AnimIdle /\ LayerIdle /\ TileIdle /\ KeyIdle /\ PoolIdle /\ MinIdle

\* the total check of build_cart and the filling of gfx_buf
FillGfxBuf ==
    /\ pc = "cart_input"
    /\ cart_log' = cart_log \cup sprite_overflow(Len(char_chunk))
    /\ gfx_buf' = fill_gfx_buf(char_chunk)
    /\ pc' = "gfx_filled"
    /\ UNCHANGED <<char_chunk, cart_map, gfx, map_hex,
                   rleVars, deltaVars, animVars, layerVars, tileVars, keyVars, poolVars, minVars>>

\* the total check at the end of build_level_data, then
\* map_hex = bytes_to_map_hex(map_section)
WriteMapHex ==
    /\ pc = "gfx_filled"
    /\ cart_log' = cart_log \cup map_overflow(Len(cart_map))
    /\ map_hex' = bytes_to_map_hex(cart_map)
    /\ pc' = "map_written"
    /\ UNCHANGED <<char_chunk, cart_map, gfx_buf, gfx,
                   rleVars, deltaVars, animVars, layerVars, tileVars, keyVars, poolVars, minVars>>

\* gfx = bytes_to_gfx(gfx_buf), and the cart is written
WriteGfx ==
    /\ pc = "map_written"
    /\ gfx' = bytes_to_gfx(gfx_buf)
    /\ pc' = "cart_written"
    /\ UNCHANGED <<char_chunk, cart_map, gfx_buf, map_hex, cart_log,
                   rleVars, deltaVars, animVars, layerVars, tileVars, keyVars, poolVars, minVars>>

NextCart == FillGfxBuf \/ WriteMapHex \/ WriteGfx

SpecCart == InitCart /\ [][NextCart]_vars

\* byte i (1-based) of a region written as rows of hex digit pairs
RegionByte(rows, row_bytes, i, low_first) ==
    LET row == rows[((i - 1) \div row_bytes) + 1]
        k   == (i - 1) % row_bytes
        d1  == row[(2 * k) + 1]
        d2  == row[(2 * k) + 2]
    IN  IF low_first THEN d1 + (16 * d2) ELSE (16 * d1) + d2

\* the region holds the payload's bytes, zeros after them, and nothing more
RegionHolds(rows, n_rows, row_bytes, payload, low_first) ==
    /\ Len(rows) = n_rows
    /\ \A r \in 1..n_rows : Len(rows[r]) = 2 * row_bytes
    /\ \A i \in 1..(n_rows * row_bytes) :
          RegionByte(rows, row_bytes, i, low_first)
              = (IF i <= Len(payload) THEN payload[i] ELSE 0)

\* C14: whatever the payload length, the sprite region written to the cart is
\* exactly 8192 bytes and the map region exactly 4096 bytes, zero-padded when
\* the payload is shorter; a payload over the capacity is reported with its
\* overage and the cart is still written
RegionsFixedSize ==
    /\ pc \in {"map_written", "cart_written"} =>
          /\ GFX_ROWS * GFX_ROW_BYTES = 8192 /\ MAP_ROWS * MAP_ROW_BYTES = 4096
          /\ RegionHolds(map_hex, MAP_ROWS, MAP_ROW_BYTES, cart_map, FALSE)
          /\ Len(cart_map) > 4096 =>
                <<"map_overflow", 0, Len(cart_map) - 4096>> \in cart_log
    /\ pc = "cart_written" =>
          /\ RegionHolds(gfx, GFX_ROWS, GFX_ROW_BYTES, char_chunk, TRUE)
          /\ Len(char_chunk) > 8192 =>
                <<"sprite_overflow", 0, Len(char_chunk) - 8192>> \in cart_log
    /\ (pc = "cart_input" /\ (Len(char_chunk) > 8192 \/ Len(cart_map) > 4096))
          => ENABLED FillGfxBuf

\* a cart written with both payloads one byte over the capacity
RegionsFixedSizeWitness ==
    /\ pc = "cart_written"
    /\ Len(char_chunk) = 8193 /\ Len(cart_map) = 4097
    /\ Len(gfx) = 128 /\ Len(map_hex) = 32
    /\ cart_log = {<<"sprite_overflow", 0, 1>>, <<"map_overflow", 0, 1>>}

\* a cart written with short payloads, padded with zeros
RegionsPaddedReached ==
    /\ pc = "cart_written"
    /\ Len(char_chunk) = 3 /\ Len(cart_map) = 3
    /\ cart_log = {}
    /\ gfx[1][1] = char_chunk[1] % 16
    /\ gfx[GFX_ROWS][2 * GFX_ROW_BYTES] = 0

-----------------------------------------------------------------------------
(* Frame boxes and palettes of the encoded animations *)

\* C17: get_frame_bbox returns (0,0,0,0) for a frame with no opaque pixel and
\* otherwise the tight box: every opaque pixel lies inside it and its first and
\* last column and row each hold an opaque pixel
FrameBoxTight ==
    pc \in {"anim_encoded", "anim_decoded"} =>
        \A k \in 1..Len(frames) :
            LET f   == frames[k]
                box == get_frame_bbox(f, fw, fh)
                op  == {idx \in 0..((fw * fh) - 1) : f[idx + 1] # TRANS}
                xs  == {idx % fw : idx \in op}
                ys  == {idx \div fw : idx \in op}
            IN  IF op = {} THEN box = <<0, 0, 0, 0>>
                ELSE /\ box[3] >= 1 /\ box[4] >= 1
                     /\ \A x \in xs : box[1] <= x /\ x <= box[1] + box[3] - 1
                     /\ \A y \in ys : box[2] <= y /\ y <= box[2] + box[4] - 1
                     /\ box[1] \in xs /\ (box[1] + box[3] - 1) \in xs
                     /\ box[2] \in ys /\ (box[2] + box[4] - 1) \in ys

\* an encoded animation with a frame boxed away from the origin and smaller
\* than the frame, and a frame with no opaque pixel
FrameBoxWitness ==
    /\ pc = "anim_encoded"
    /\ fw = 3 /\ fh = 2
    /\ \E k \in 1..Len(frames) : get_frame_bbox(frames[k], fw, fh) = <<1, 1, 1, 1>>
    /\ \E k \in 1..Len(frames) : get_frame_bbox(frames[k], fw, fh) = <<0, 0, 0, 0>>

\* C18: with bpp = min_bpp_for_frames(frames), the least of 1..4 with
\* 2^bpp >= the number of colours, and palette = build_palette(frames, bpp),
\* every colour of the frames is in the palette and every pixel is quantized
\* to a position holding its own colour
QuantizeExact ==
    pc = "anim_encoded" =>
        LET b   == min_bpp_for_frames(frames)
            pal == build_palette(frames, b)
            n   == Cardinality(ColorsOf(frames))
        IN  /\ b \in 1..4
            /\ Pow2(b) >= n
            /\ b > 1 => Pow2(b - 1) < n
            /\ anim.bpp = b
            /\ b < 4 => anim.palette = pal
            /\ ColorsOf(frames) \subseteq {pal[i] : i \in 1..Len(pal)}
            /\ \A k \in 1..Len(frames) :
                  LET q == quantize_pixels(frames[k], pal)
                  IN  /\ Len(q) = Len(frames[k])
                      /\ \A i \in 1..Len(q) : pal[q[i] + 1] = frames[k][i]

\* three bits per pixel, a pixel quantized to the palette's sixth position
QuantizeExactWitness ==
    /\ pc = "anim_encoded"
    /\ anim.bpp = 3
    /\ Cardinality(ColorsOf(frames)) = 6
    /\ \E k \in 1..Len(frames) : \E i \in 1..Len(frames[k]) :
          quantize_pixels(frames[k], anim.palette)[i] = 5

\* c stands before d in a palette: the transparent colour before every other
\* colour, the others ascending
Before(c, d) == IF c = TRANS THEN d # TRANS ELSE d # TRANS /\ c < d

\* the first m entries of pal are the first m colours in palette order, each
\* at the position given by the number of colours standing before it
PaletteColours(pal, m, colors) ==
    \A i \in 1..m :
        /\ pal[i] \in colors
        /\ Cardinality({c \in colors : Before(c, pal[i])}) = i - 1

\* the number of colours a palette of depth b has room for
Listed(colors, b) ==
    IF Cardinality(colors) <= Pow2(b) THEN Cardinality(colors) ELSE Pow2(b)

\* C19 as stated: a palette has 2^bpp entries, the transparent colour first
\* when it occurs, the other colours ascending, and no colour at two positions
PaletteNoRepeats ==
    pc = "anim_encoded" =>
        \A b \in 1..4 :
            LET pal == build_palette(frames, b)
            IN  /\ Len(pal) = Pow2(b)
                /\ PaletteColours(pal, Listed(ColorsOf(frames), b), ColorsOf(frames))
                /\ \A i \in 1..Len(pal) : \A j \in 1..Len(pal) :
                      i # j => pal[i] # pal[j]

\* C19 amended: a palette has 2^bpp entries; as far as they reach they list
\* the colours of the frames, each once, the transparent colour first when it
\* occurs and the others ascending; every entry after the colours is the
\* filler 0; the palette of an encoded animation is such a palette
PaletteColoursThenFiller ==
    pc = "anim_encoded" =>
        /\ anim.bpp < 4 => anim.palette = build_palette(frames, anim.bpp)
        /\ \A b \in 1..4 :
              LET pal == build_palette(frames, b)
                  m   == Listed(ColorsOf(frames), b)
              IN  /\ Len(pal) = Pow2(b)
                  /\ PaletteColours(pal, m, ColorsOf(frames))
                  /\ \A i \in 1..m : \A j \in 1..m : i # j => pal[i] # pal[j]
                  /\ \A i \in (m + 1)..Len(pal) : pal[i] = 0

\* five colours in a palette of eight: the filler 0 at three positions
PaletteFillerWitness ==
    /\ pc = "anim_encoded"
    /\ anim.palette = <<TRANS, 1, 2, 3, 4, 0, 0, 0>>

\* colour 0 listed and used again as the filler
PaletteZeroTwiceReached ==
    /\ pc = "anim_encoded"
    /\ anim.bpp = 1
    /\ anim.palette = <<0, 0>>

\* more colours than a depth of 1 has room for: the palette stops after two
PaletteCutReached ==
    /\ pc = "anim_encoded"
    /\ Cardinality(ColorsOf(frames)) = 6
    /\ build_palette(frames, 1) = <<TRANS, 1>>

-----------------------------------------------------------------------------
(* The units of a run-length stream *)

\* o read as units from byte i (1-based): a byte whose run field is below
\* run_mask is a unit of its own (ext = -1), a byte whose field is run_mask
\* takes the next byte as ext; a last byte lacking its ext is marked torn
RECURSIVE UnitsFrom(_, _, _)
UnitsFrom(o, i, b) ==
    LET run_mask == Pow2(8 - b) - 1
        color    == o[i] \div (run_mask + 1)
        f        == o[i] % (run_mask + 1)
    IN  IF i > Len(o) THEN <<>>
        ELSE IF f < run_mask
             THEN <<[color |-> color, f |-> f, ext |-> -1, len |-> f + 1,
                     torn |-> FALSE]>> \o UnitsFrom(o, i + 1, b)
        ELSE IF i + 1 > Len(o)
             THEN <<[color |-> color, f |-> f, ext |-> -1, len |-> 0, torn |-> TRUE]>>
        ELSE <<[color |-> color, f |-> f, ext |-> o[i + 1],
                len |-> run_mask + 1 + o[i + 1], torn |-> FALSE]>>
             \o UnitsFrom(o, i + 2, b)

\* 1-based position of the first pixel of unit k
RECURSIVE UnitStart(_, _)
UnitStart(us, k) == IF k = 1 THEN 1 ELSE UnitStart(us, k - 1) + us[k - 1].len

\* last position of the maximal run of equal pixels that position s lies in
RunEnd(px, s) ==
    CHOOSE e \in s..Len(px) :
        /\ \A j \in s..e : px[j] = px[s]
        /\ e = Len(px) \/ px[e + 1] # px[s]

\* C20: the output of ext_nibble_rle_encode is a sequence of whole units; a
\* unit that starts with `remaining` pixels of its maximal run left is the one
\* byte with field remaining - 1 when remaining <= run_mask, and otherwise the
\* escaped pair with ext = min(remaining - 1 - run_mask, 255); it stands for
\* that many pixels of the run's colour, so units never cross a run's end,
\* their lengths sum to the run lengths, and every unit of a run but the last
\* has ext = 255
RleUnitFormat ==
    pc \in {"rle_encoded", "rle_decoded"} =>
        LET run_mask == Pow2(8 - bpp) - 1
            us       == UnitsFrom(out, 1, bpp)
            n        == Len(us)
        IN  /\ n >= 1
            /\ \A k \in 1..n : ~us[k].torn
            /\ UnitStart(us, n) + us[n].len = Len(pixels) + 1
            /\ \A k \in 1..n :
                  LET s         == UnitStart(us, k)
                      e         == RunEnd(pixels, s)
                      remaining == e - s + 1
                      last      == s + us[k].len - 1
                  IN  /\ s <= Len(pixels)
                      /\ s = 1 \/ pixels[s - 1] # pixels[s] \/ us[k - 1].ext = 255
                      /\ us[k].color = pixels[s]
                      /\ last <= e
                      /\ \A j \in s..last : pixels[j] = us[k].color
                      /\ IF remaining <= run_mask
                         THEN us[k].ext = -1 /\ us[k].f = remaining - 1
                         ELSE /\ us[k].f = run_mask
                              /\ us[k].ext = Min(remaining - 1 - run_mask, 255)
                              /\ us[k].len = run_mask + 1 + us[k].ext
                      /\ last < e => us[k].ext = 255

\* a 2bpp run of 320 pixels in two units, an escaped unit with ext = 255
\* (64 + 255 pixels) and a one-byte unit for the last pixel, then a run of 64
\* in one escaped unit with ext = 0
RleUnitFormatWitness ==
    /\ pc = "rle_encoded"
    /\ bpp = 2
    /\ pixels = Rep(3, 320) \o Rep(1, 64)
    /\ out = <<255, 255, 192, 127, 0>>

\* a run that ends exactly with a full escaped unit
RleFullUnitEndsRun ==
    /\ pc = "rle_encoded"
    /\ bpp = 4
    /\ pixels = Rep(1, 271) \o Rep(0, 1)
    /\ out = <<31, 255, 0>>

-----------------------------------------------------------------------------
(* The skip entries of a delta *)

\* the bytes stated for one difference after the first: one byte up to skip
\* 14, the escape with one extension byte while skip - 15 <= ext_max, the
\* escape with 0xFF and a 16-bit skip beyond
SkipEntry(skip, color, ext_max) ==
    IF skip <= 14 THEN <<skip * 16 + color>>
    ELSE IF skip - 15 <= ext_max THEN <<15 * 16 + color, skip - 15>>
    ELSE <<15 * 16 + color, 255, skip % 256, skip \div 256>>

\* the stated bytes of differences lo..hi-1 (0-based, after the first)
RECURSIVE SkipEntries(_, _, _, _, _)
SkipEntries(idx, frame, lo, hi, ext_max) ==
    IF lo >= hi THEN <<>>
    ELSE IF hi = lo + 1
         THEN SkipEntry(idx[lo + 1] - idx[lo] - 1, frame[idx[lo + 1] + 1], ext_max)
    ELSE LET mid == (lo + hi) \div 2
         IN  SkipEntries(idx, frame, lo, mid, ext_max)
               \o SkipEntries(idx, frame, mid, hi, ext_max)

\* bytes of a delta before its skip entries: the count and the first difference
DeltaHead(n) == IF n >= 255 THEN 6 ELSE 4

\* the delta's entries are the stated ones and decode_skip's loop body, put
\* at an entry with the position of the previous difference, moves to the
\* next difference and to the next entry
SkipEntriesAre(ext_max) ==
    LET idx == DiffIndices(base_pixels, frame_pixels)
        n   == Len(idx)
    IN  n >= 1 =>
          /\ SubSeq(delta, DeltaHead(n) + 1, Len(delta))
                = SkipEntries(idx, frame_pixels, 1, n, ext_max)
          /\ \A j \in 1..(n - 1) :
                LET o  == DeltaHead(n) + Len(SkipEntries(idx, frame_pixels, 1, j, ext_max))
                    e  == SkipEntry(idx[j + 1] - idx[j] - 1,
                                    frame_pixels[idx[j + 1] + 1], ext_max)
                    st == decode_skip_step(delta,
                              [buf |-> base_pixels, off |-> o, pos |-> idx[j] + 1])
                IN  /\ st.pos = idx[j + 1] + 1
                    /\ st.off = o + Len(e)
                    /\ st.buf[st.pos] = frame_pixels[st.pos]

\* C21 as stated: the extension byte holds skip - 15 whenever skip - 15 fits
\* a byte (at most 255), and the decoder recovers every skip
SkipEscapeExtUpTo255 ==
    pc \in {"delta_encoded", "delta_decoded"} => SkipEntriesAre(255)

\* C21 amended: the extension byte holds skip - 15 while skip - 15 <= 254;
\* from skip - 15 = 255 on the entry is the escape byte, 0xFF and the skip as a
\* 16-bit little-endian value; the decoder recovers every skip
SkipEscapeExtUpTo254 ==
    pc \in {"delta_encoded", "delta_decoded"} => SkipEntriesAre(254)

\* skip 269 in the one-extension-byte form next to skip 270 in the 16-bit form
SkipEscapeWitness ==
    /\ pc = "delta_decoded"
    /\ Len(DiffIndices(base_pixels, frame_pixels)) = 3
    /\ SubSeq(delta, 5, Len(delta)) = <<255, 254, 255, 255, 14, 1>>
    /\ dbuf = frame_pixels

-----------------------------------------------------------------------------
(* The keyframe candidates of an encoded animation *)

\* the frames encode_type0 hands to the candidates: cropped to the union box
\* and, below 4 bits per pixel, quantized
CroppedFrames ==
    LET box == get_bbox(frames, fw, fh)
    IN  Tup([k \in 1..Len(frames) |->
            LET cr == crop_pixels(frames[k], fw, box[1], box[2], box[3], box[4])
            IN  IF anim.bpp < 4 /\ anim.palette # <<>>
                THEN quantize_pixels(cr, anim.palette) ELSE cr])

\* the block of each candidate of pick_keyframes_candidates, in candidate order
CandidateBlocks ==
    LET cands == pick_keyframes_candidates(Len(frames))
    IN  Tup([c \in 1..Len(cands) |->
            type0_block(Len(frames), CroppedFrames, get_bbox(frames, fw, fh),
                        anim.bpp, anim.palette, cands[c])])

\* C22: the block returned by encode_type0 is no longer than the block of
\* any candidate of pick_keyframes_candidates, it is the block of the
\* earliest candidate of that length, and no candidate of that length has
\* fewer keyframes
Type0KeepsMinimum ==
    pc = "anim_encoded" =>
        LET cands  == pick_keyframes_candidates(Len(frames))
            blocks == CandidateBlocks
        IN  /\ \A c \in 1..Len(blocks) : Len(anim.kd) <= Len(blocks[c])
            /\ \E c \in 1..Len(blocks) :
                  /\ anim.kd = blocks[c]
                  /\ \A d \in 1..(c - 1) : Len(blocks[d]) > Len(anim.kd)
                  /\ \A d \in 1..Len(blocks) :
                        Len(blocks[d]) = Len(anim.kd) => Len(cands[d]) >= Len(cands[c])

\* the kept block belongs to a later candidate than the first, whose block is
\* longer, and some candidate after the kept one gives a longer block too
Type0KeepsMinimumWitness ==
    /\ pc = "anim_encoded"
    /\ \E c \in 2..Len(CandidateBlocks) :
          /\ anim.kd = CandidateBlocks[c]
          /\ Len(CandidateBlocks[1]) > Len(anim.kd)
          /\ \E d \in (c + 1)..Len(CandidateBlocks) :
                Len(CandidateBlocks[d]) > Len(anim.kd)

\* the kept block has two keyframes: every one-keyframe block is longer
Type0TwoKeysReached ==
    /\ pc = "anim_encoded"
    /\ KeyCount(anim.kd) = 2

\* the first candidate is kept although a later one is as short
Type0TieKeepsFirst ==
    /\ pc = "anim_encoded"
    /\ anim.kd = CandidateBlocks[1]
    /\ \E d \in 2..Len(CandidateBlocks) :
          Len(CandidateBlocks[d]) = Len(anim.kd) /\ CandidateBlocks[d] # anim.kd

-----------------------------------------------------------------------------
(* The layout of a type 0 block *)

\* the 16-bit little-endian value at 1-based position i of a block
U16At(blk, i) == blk[i] + 256 * blk[i + 1]

\* total length of the first m sequences of ss
LenUpTo(ss, m) == Len(Flatten(SubSeq(ss, 1, m)))

\* blk is laid out as a type 0 block for the frames: count, type, bpp, the
\* packed palette exactly when bpp < 4, key count, union box, key indices,
\* key sizes, assignments, delta offsets, the keyframes' run-length data in
\* key order and the deltas, every size and offset the true one
Type0LayoutOf(blk) ==
    LET n       == Len(frames)
        b       == anim.bpp
        cropped == CroppedFrames
        pal_len == IF b < 4 THEN (Pow2(b) + 1) \div 2 ELSE 0
        p_nk    == 4 + pal_len
        nk      == blk[p_nk]
        p_ki    == p_nk + 5
        p_ks    == p_ki + nk
        p_as    == p_ks + 2 * nk
        p_do    == p_as + n
        p_data  == p_do + 2 * n
        ki      == SubSeq(blk, p_ki, p_ks - 1)
        as      == SubSeq(blk, p_as, p_do - 1)
        rles    == Tup([k \in 1..nk |-> ext_nibble_rle_encode(cropped[ki[k] + 1], b)])
        deltas  == Tup([i \in 1..n |->
                       delta_encode_skip(cropped[ki[as[i] + 1] + 1], cropped[i])])
        keys_len == Len(Flatten(rles))
    IN  /\ Len(blk) >= p_nk
        /\ blk[1] = n /\ blk[2] = 0 /\ blk[3] = b
        /\ b < 4 => SubSeq(blk, 4, 3 + pal_len) = pack_palette(anim.palette)
        /\ nk \in 1..n
        /\ Len(blk) >= p_data
        /\ SubSeq(blk, p_nk + 1, p_nk + 4) = get_bbox(frames, fw, fh)
        /\ \A k \in 1..nk : ki[k] \in 0..(n - 1)
        /\ \A i \in 1..n : as[i] \in 0..(nk - 1)
        /\ \A k \in 1..nk : U16At(blk, p_ks + 2 * (k - 1)) = Len(rles[k])
        /\ \A k \in 1..nk :
              SubSeq(blk, p_data + LenUpTo(rles, k - 1),
                          p_data + LenUpTo(rles, k) - 1) = rles[k]
        /\ \A i \in 1..n :
              U16At(blk, p_do + 2 * (i - 1)) = keys_len + LenUpTo(deltas, i - 1)
        /\ \A i \in 1..n :
              SubSeq(blk, p_data + keys_len + LenUpTo(deltas, i - 1),
                          p_data + keys_len + LenUpTo(deltas, i) - 1) = deltas[i]
        /\ Len(blk) = p_data - 1 + keys_len + LenUpTo(deltas, n)

\* C23: every block returned by encode_type0 has the byte-exact type 0 layout,
\* with key_sizes[k] the length of keyframe k's run-length data and
\* delta_offsets[i] the position of frame i's delta from the start of the
\* keyframe data
Type0Layout ==
    pc \in {"anim_encoded", "type0_encoded"} => Type0LayoutOf(anim.kd)


\* width and height of the title frames
TITLE_SIZE == 128

\* frame k of a title-sized animation without runs: neighbouring pixels
\* differ and two frames differ in every pixel
BusyFrame(k) ==
    Tup([i \in 1..(TITLE_SIZE * TITLE_SIZE) |->
            (((i - 1) * 7) + (3 * k) + ((i - 1) \div TITLE_SIZE)) % 16])

BusyTitle == Tup([k \in 1..4 |-> BusyFrame(k - 1)])

\* the small animations and the busy title
InitTitle ==
    /\ pc = "anim_input"
    /\ \/ frames = BusyTitle /\ fw = TITLE_SIZE /\ fh = TITLE_SIZE
       \/ \E a \in SmallAnims : frames = a.frames /\ fw = a.fw /\ fh = a.fh
    /\ anim = <<>>
    /\ decoded = <<>>
    /\ RleIdle /\ DeltaIdle /\ LayerIdle /\ TileIdle /\ KeyIdle /\ CartIdle /\ PoolIdle /\ MinIdle

\* the KeyframeDelta half of encode_animation: bpp and palette as in auto
\* mode, then kd_block = encode_type0(...)
encode_animation_kd(fs, w, h) ==
    LET b       == min_bpp_for_frames(fs)
        palette == IF b < 4 THEN build_palette(fs, b) ELSE <<>>
    IN  CHOOSE r \in
          {[err |-> kd = "IndexError", bpp |-> b, palette |-> palette,
            kd |-> IF kd = "IndexError" THEN <<>> ELSE kd,
            pf |-> <<>>, block |-> <<>>] :
             kd \in {encode_type0(fs, w, h, b, palette)}} : TRUE

EncodeType0 ==
    /\ pc = "anim_input"
    /\ anim' = encode_animation_kd(frames, fw, fh)
    /\ pc' = IF anim'.err THEN "anim_error" ELSE "type0_encoded"
    /\ UNCHANGED <<frames, fw, fh, decoded, rleVars, deltaVars, layerVars, tileVars, keyVars, cartVars, poolVars, minVars>>

SpecTitle == InitTitle /\ [][EncodeType0]_vars

\* the busy title is encoded with four keyframes of 16384 bytes each, and the
\* offset stored for the first delta is 0 instead of 65536
Type0OffsetsWrapped ==
    /\ pc = "type0_encoded"
    /\ frames = BusyTitle
    /\ anim.kd[4] = 4
    /\ Len(anim.kd) = 65572
    /\ U16At(anim.kd, 25) = 0

-----------------------------------------------------------------------------
(* The tiling found by detect_tiling *)

\* the cell at (x, y) equals the cell at the same position modulo (tw, th),
\* for every cell of the box with corner (x0, y0) and size bw x bh
ValidTiling(x0, y0, bw, bh, tw, th) ==
    \A y \in y0..(y0 + bh - 1) : \A x \in x0..(x0 + bw - 1) :
        cell_grid[y + 1][x + 1]
          = cell_grid[y0 + ((y - y0) % th) + 1][x0 + ((x - x0) % tw) + 1]

\* C24: detect_tiling returns None exactly when the grid has no non-empty
\* cell; otherwise a pair (tw, th) within the non-empty bounding box that is
\* valid and of least cost 6 + tw*th among the valid pairs, with the box as
\* region, and the tile cells repeated over the box, 0 outside, give the grid
DetectTilingMinimal ==
    pc \in {"layer_encoded", "layer_error", "layer_expanded"} =>
        LET t  == layer.tiling
            xs == {x \in 0..(map_w - 1) : \E y \in 1..map_h : cell_grid[y][x + 1] # 0}
            ys == {y \in 0..(map_h - 1) : \E x \in 1..map_w : cell_grid[y + 1][x] # 0}
        IN  IF xs = {} THEN t = <<>>
            ELSE LET x0 == SetMin(xs)
                     y0 == SetMin(ys)
                     bw == SetMax(xs) - x0 + 1
                     bh == SetMax(ys) - y0 + 1
                 IN  /\ t # <<>>
                     /\ t[2] \in 1..bw /\ t[3] \in 1..bh
                     /\ <<t[4], t[5], t[6], t[7]>> = <<x0, y0, bw, bh>>
                     /\ t[1] = 6 + t[2] * t[3]
                     /\ Len(t[8]) = t[2] * t[3]
                     /\ ValidTiling(x0, y0, bw, bh, t[2], t[3])
                     /\ \A tw \in 1..bw : \A th \in 1..bh :
                           (6 + tw * th < t[1]) => ~ValidTiling(x0, y0, bw, bh, tw, th)
                     /\ \A y \in 0..(map_h - 1) : \A x \in 0..(map_w - 1) :
                           cell_grid[y + 1][x + 1]
                             = IF x \in x0..(x0 + bw - 1) /\ y \in y0..(y0 + bh - 1)
                               THEN t[8][((y - y0) % t[3]) * t[2] + ((x - x0) % t[2]) + 1]
                               ELSE 0

\* a 2x1 tile found in a 3x2 box that starts one column in: the 1x1 tile is
\* not valid and the whole box costs more
DetectTilingWitness ==
    /\ pc = "layer_encoded"
    /\ map_w = 4 /\ map_h = 2
    /\ cell_grid = << <<0, 1, 2, 1>>, <<0, 1, 2, 1>> >>
    /\ layer.tiling = <<8, 2, 1, 1, 0, 3, 2, <<1, 2>> >>

\* a grid without non-empty cell: detect_tiling returns None
DetectTilingNoneReached ==
    /\ pc = "layer_encoded"
    /\ map_w = 4 /\ map_h = 2
    /\ \A y \in 1..2 : \A x \in 1..4 : cell_grid[y][x] = 0
    /\ layer.tiling = <<>>

-----------------------------------------------------------------------------
(* The units of a PackBits stream *)

\* o read as units from byte i (1-based): control 0..127 copies the next
\* ctrl + 1 bytes, control 128..255 repeats the next byte ctrl - 125 times; a
\* unit whose bytes run past the end of o is marked torn
RECURSIVE PackUnits(_, _)
PackUnits(o, i) ==
    IF i > Len(o) THEN <<>>
    ELSE IF o[i] >= 128
         THEN IF i + 1 > Len(o)
              THEN <<[lit |-> FALSE, cells |-> <<>>, torn |-> TRUE]>>
              ELSE <<[lit |-> FALSE, cells |-> Rep(o[i + 1], o[i] - 125),
                      torn |-> FALSE]>> \o PackUnits(o, i + 2)
         ELSE IF i + o[i] + 1 > Len(o)
              THEN <<[lit |-> TRUE, cells |-> <<>>, torn |-> TRUE]>>
              ELSE <<[lit |-> TRUE, cells |-> SubSeq(o, i + 1, i + o[i] + 1),
                      torn |-> FALSE]>> \o PackUnits(o, i + o[i] + 2)

\* the decoder of mode 2: the cells of the units one after the other
unpack_bits(o) ==
    LET us == PackUnits(o, 1)
    IN  Flatten([k \in 1..Len(us) |-> us[k].cells])

\* row-major flattening of the grid
FlatGrid == Flatten([y \in 1..map_h |-> SubSeq(cell_grid[y], 1, map_w)])

\* C25: decoding encode_packbits gives the row-major flattening of the grid;
\* every repeat unit covers 3..130 cells, every literal unit 1..128 cells, and
\* at no position inside a literal unit do three identical values start
PackBitsFormat ==
    pc \in {"layer_encoded", "layer_error", "layer_expanded"} =>
        LET flat == FlatGrid
            us   == PackUnits(layer.packbits, 1)
            at(k) == Len(Flatten([j \in 1..(k - 1) |-> us[j].cells]))
        IN  /\ Len(flat) = map_w * map_h
            /\ unpack_bits(layer.packbits) = flat
            /\ \A k \in 1..Len(us) :
                  /\ ~us[k].torn
                  /\ ~us[k].lit => Len(us[k].cells) \in 3..130
                  /\ us[k].lit =>
                        /\ Len(us[k].cells) \in 1..128
                        /\ \A p \in (at(k) + 1)..(at(k) + Len(us[k].cells)) :
                              ~(/\ p + 2 <= Len(flat)
                                /\ flat[p] = flat[p + 1]
                                /\ flat[p] = flat[p + 2])

\* two literals, then a repeat of three, then another repeat of three
PackBitsWitness ==
    /\ pc = "layer_encoded"
    /\ cell_grid = << <<1, 2, 1, 1>>, <<1, 0, 0, 0>> >>
    /\ layer.packbits = <<1, 1, 2, 128, 1, 128, 0>>

\* 300 equal cells: two repeats of 130 and one of 40
PackBitsRepeatCapReached ==
    /\ pc \in {"layer_encoded", "layer_error"}
    /\ map_w = 300 /\ map_h = 1
    /\ layer.packbits = <<255, 1, 255, 1, 165, 1>>

\* 300 alternating cells: literal units of 128, 128 and 44 cells
PackBitsLiteralCapReached ==
    /\ pc \in {"layer_encoded", "layer_error"}
    /\ map_w = 300 /\ map_h = 1
    /\ Len(layer.packbits) = 303
    /\ layer.packbits[1] = 127 /\ layer.packbits[130] = 127 /\ layer.packbits[259] = 43

-----------------------------------------------------------------------------
(* The runtime tile pool under add_tile_variant *)

\* most add_tile_variant calls in a run of the pool machine
MaxCalls == 3

\* pixel buffers handed to add_tile_variant: a tile, its quarter turn, another
PoolPixels ==
    LET a == remap_tile_colors(TileAsym, BAND_COLORS_default)
    IN  {a, rot_cw(a), remap_tile_colors(TileSym, BAND_COLORS_default)}

\* collision flags of the editor: one tile has flags, index 1 lies beyond
PoolFlags == <<3>>

\* rt_tiles = [], rt_tile_flags = {}, base_rt and rot90_rt one dict per layer
InitPool ==
    /\ pc = "pool_open"
    /\ rt_pool = [rt_tiles |-> <<>>, base_rt |-> <<empty_dict, empty_dict>>,
                  rot90_rt |-> <<empty_dict, empty_dict>>,
                  rt_tile_flags |-> empty_dict]
    /\ pool_calls = <<>>
    /\ RleIdle /\ DeltaIdle /\ AnimIdle /\ LayerIdle /\ TileIdle /\ KeyIdle /\ CartIdle /\ MinIdle

\* one call add_tile_variant(pixels, L, ti, is_rot90)
AddTileVariant ==
    /\ pc = "pool_open"
    /\ Len(pool_calls) < MaxCalls
    /\ \E px \in PoolPixels, L \in {0, 1}, ti \in {0, 1}, is_rot90 \in BOOLEAN :
          /\ rt_pool' = add_tile_variant(rt_pool, px, L, ti, is_rot90, PoolFlags)
          /\ pool_calls' = Append(pool_calls,
                                  [px |-> px, L |-> L, ti |-> ti, is_rot90 |-> is_rot90,
                                   before |-> rt_pool.rt_tiles])
    /\ pc' = "pool_open"
    /\ UNCHANGED <<rleVars, deltaVars, animVars, layerVars, tileVars, keyVars, cartVars,
                   minVars>>

SpecPool == InitPool /\ [][AddTileVariant]_vars

\* the pixel buffers of the calls in the order of their first occurrence
RECURSIVE FirstAdded(_)
FirstAdded(calls) ==
    IF calls = <<>> THEN <<>>
    ELSE LET rest == FirstAdded(SubSeq(calls, 1, Len(calls) - 1))
             px   == calls[Len(calls)].px
         IN  IF \E i \in 1..Len(rest) : rest[i] = px THEN rest ELSE Append(rest, px)

\* positions of the calls made for (L, ti, is_rot90)
CallsFor(L, ti, is_rot90) ==
    {c \in 1..Len(pool_calls) :
        /\ pool_calls[c].L = L /\ pool_calls[c].ti = ti
        /\ pool_calls[c].is_rot90 = is_rot90}

\* C26: after any sequence of add_tile_variant calls no two pool entries have
\* the same pixels; the ids are 1..n in insertion order; a call whose pixels
\* are in the pool leaves the pool as it was and any other call appends its
\* pixels; base_rt and rot90_rt hold exactly the (layer, tile) pairs added,
\* each mapped to the entry with the pixels last added for it
PoolInvariant ==
    pc = "pool_open" =>
        LET tiles == rt_pool.rt_tiles
            n     == Len(pool_calls)
            map(is_rot90) == IF is_rot90 THEN rt_pool.rot90_rt ELSE rt_pool.base_rt
        IN  /\ \A i \in 1..Len(tiles) : \A j \in 1..Len(tiles) :
                  i # j => tiles[i] # tiles[j]
            /\ tiles = FirstAdded(pool_calls)
            /\ n >= 1 =>
                  LET c == pool_calls[n]
                  IN  IF \E i \in 1..Len(c.before) : c.before[i] = c.px
                      THEN tiles = c.before
                      ELSE tiles = Append(c.before, c.px)
            /\ \A L \in {0, 1} : \A is_rot90 \in BOOLEAN :
                  /\ DOMAIN map(is_rot90)[L + 1]
                        = {ti \in {0, 1} : CallsFor(L, ti, is_rot90) # {}}
                  /\ \A ti \in DOMAIN map(is_rot90)[L + 1] :
                        LET id == map(is_rot90)[L + 1][ti]
                        IN  /\ id \in 1..Len(tiles)
                            /\ tiles[id]
                                 = pool_calls[SetMax(CallsFor(L, ti, is_rot90))].px

\* three calls, the third with the pixels of the first: two pool entries, and
\* the BG tile shares the entry of the Main tile
PoolInvariantWitness ==
    /\ pc = "pool_open"
    /\ Len(pool_calls) = 3
    /\ pool_calls[1].L = 1 /\ pool_calls[3].L = 0
    /\ pool_calls[1].px # pool_calls[2].px
    /\ pool_calls[3].px = pool_calls[1].px
    /\ Len(rt_pool.rt_tiles) = 2
    /\ rt_pool.base_rt[1][0] = 1
    /\ rt_pool.base_rt[2][0] = 1

-----------------------------------------------------------------------------
(* Two level builds in one process *)

\* one-row Main layers: the first cell empty, tile 0 plain or rotated by 90
\* degrees, or tile 1, the others empty
RebuildRows ==
    {<<v>> \o Rep(<<255, 0>>, MaxMapW - 1) :
        v \in {<<255, 0>>, <<0, 0>>, <<0, 1>>, <<1, 0>>}}

\* the levels of the two builds, with and without a band override
RebuildMaps ==
    {LevelMap(bg, main, bands) :
        bg \in QuietRows, main \in RebuildRows, bands \in BandOverrides}

InitRebuild ==
    /\ pc = "tiles_input"
    /\ BAND_COLORS = BAND_COLORS_default
    /\ sheet \in MainSheets /\ bg_sheet \in BgSheets
    /\ map_data = <<>>
    /\ tileset = <<>> /\ bg_tileset = <<>> /\ level = <<>>
    /\ RleIdle /\ DeltaIdle /\ AnimIdle /\ LayerIdle /\ KeyIdle /\ CartIdle /\ PoolIdle /\ MinIdle

\* build_level_data(tileset, bg_tileset, map_data), the first call of the process
BuildFirstLevel ==
    /\ pc = "tiles_sliced"
    /\ \E md \in RebuildMaps :
          /\ map_data' = md
          /\ level' = build_level_data(tileset, bg_tileset, md, BAND_COLORS)
    /\ BAND_COLORS' = level'.band_colors
    /\ pc' = IF level'.err = "" THEN "level_built" ELSE "level_error"
    /\ UNCHANGED <<sheet, bg_sheet, tileset, bg_tileset,
                   rleVars, deltaVars, animVars, layerVars, keyVars, cartVars, poolVars, minVars>>

\* a second build_level_data(tileset, bg_tileset, map_data) call in the same
\* process: the module's BAND_COLORS is whatever the first call left there
BuildNextLevel ==
    /\ pc = "level_built"
    /\ \E md \in RebuildMaps :
          /\ map_data' = md
          /\ level' = build_level_data(tileset, bg_tileset, md, BAND_COLORS)
    /\ BAND_COLORS' = level'.band_colors
    /\ pc' = IF level'.err = "" THEN "level_rebuilt" ELSE "level_error"
    /\ UNCHANGED <<sheet, bg_sheet, tileset, bg_tileset,
                   rleVars, deltaVars, animVars, layerVars, keyVars, cartVars, poolVars, minVars>>

NextRebuild == SliceTileset \/ SliceBgTileset \/ BuildFirstLevel \/ BuildNextLevel

SpecRebuild == InitRebuild /\ [][NextRebuild]_vars

\* C27: the level a second build_level_data call returns is the level the same
\* call returns in a fresh process, where BAND_COLORS is the module's default
BuildIndependentOfEarlierBuild ==
    pc = "level_rebuilt" =>
        LET alone == build_level_data(tileset, bg_tileset, map_data, BAND_COLORS_default)
        IN  /\ level.map_section = alone.map_section
            /\ level.rt_tiles = alone.rt_tiles
            /\ level.rt_tile_flags = alone.rt_tile_flags
            /\ level.num_spr_tiles = alone.num_spr_tiles

\* a second build of a level without a band override, after a first build whose
\* level carried one
RebuildAfterOverrideReached ==
    /\ pc = "level_rebuilt"
    /\ map_data.band_colors = <<>>
    /\ BAND_COLORS # BAND_COLORS_default

\* a second build that returns what a build in a fresh process returns
RebuildSameReached ==
    /\ pc = "level_rebuilt"
    /\ BAND_COLORS = BAND_COLORS_default
    /\ level.map_section =
         build_level_data(tileset, bg_tileset, map_data, BAND_COLORS_default).map_section

-----------------------------------------------------------------------------
(* The union box of an animation *)

\* 0-based indices of the pixels that are opaque in some frame
UnionOpaque == UNION {Opaque(frames[k]) : k \in 1..Len(frames)}

\* box = <<x, y, w, h>> lies inside the frame and its fields are bytes
BoxInFrame(box) ==
    /\ box[1] >= 0 /\ box[2] >= 0 /\ box[3] >= 0 /\ box[4] >= 0
    /\ box[1] + box[3] <= fw /\ box[2] + box[4] <= fh
    /\ \A i \in 1..4 : box[i] \in 0..255

\* box holds every pixel of UnionOpaque and no smaller rectangle does: no
\* pixel gives an empty box, otherwise each edge of the box holds a pixel
BoxSmallest(box) ==
    LET xs == {idx % fw : idx \in UnionOpaque}
        ys == {idx \div fw : idx \in UnionOpaque}
    IN  IF UnionOpaque = {} THEN box[3] * box[4] = 0
        ELSE /\ \A x \in xs : box[1] <= x /\ x <= box[1] + box[3] - 1
             /\ \A y \in ys : box[2] <= y /\ y <= box[2] + box[4] - 1
             /\ box[1] \in xs /\ (box[1] + box[3] - 1) \in xs
             /\ box[2] \in ys /\ (box[2] + box[4] - 1) \in ys

\* crop_pixels returns the w*h pixels of the box, row by row
CropIsBox(box) ==
    \A k \in 1..Len(frames) :
        LET cr == crop_pixels(frames[k], fw, box[1], box[2], box[3], box[4])
        IN  /\ Len(cr) = box[3] * box[4]
            /\ \A r \in 0..(box[4] - 1) : \A c \in 0..(box[3] - 1) :
                   cr[(r * box[3]) + c + 1]
                     = frames[k][((box[2] + r) * fw) + box[1] + c + 1]

\* C28: for every animation get_bbox returns a rectangle inside the frame, with
\* byte-sized fields, that is the smallest one holding every opaque pixel of
\* every frame, and crop_pixels extracts exactly its w*h pixels row-major
UnionBoxOfEveryAnimation ==
    pc \in {"anim_encoded", "anim_error"} =>
        LET box == get_bbox(frames, fw, fh)
        IN  BoxInFrame(box) /\ BoxSmallest(box) /\ CropIsBox(box)

\* the same for the animations with an opaque pixel in some frame
UnionBoxOfOpaqueAnimation ==
    (pc \in {"anim_encoded", "anim_error"} /\ UnionOpaque # {}) =>
        LET box == get_bbox(frames, fw, fh)
        IN  BoxInFrame(box) /\ BoxSmallest(box) /\ CropIsBox(box)

\* an animation of 3x2 frames without any opaque pixel: the box has width -1
UnionBoxNegativeReached ==
    /\ pc = "anim_error"
    /\ UnionOpaque = {}
    /\ get_bbox(frames, fw, fh) = <<2, 1, -1, 0>>

\* a union box larger than the box of each frame and away from the origin
UnionBoxSpansFramesReached ==
    /\ pc = "anim_encoded"
    /\ get_bbox(frames, fw, fh)[1] > 0
    /\ \A k \in 1..Len(frames) :
          get_frame_bbox(frames[k], fw, fh) # get_bbox(frames, fw, fh)

-----------------------------------------------------------------------------
(* Levels without tiles *)

\* every cell of every layer of the level is the empty tile index 255
AllCellsEmpty(md) ==
    \A L1 \in 1..Len(md.map_grids) : \A y \in 1..md.map_h : \A x \in 1..md.map_w :
        md.map_grids[L1][y][x] = 255

\* a layer of (cell, run) pairs read back as the list of its cells
RECURSIVE unrle_cells(_)
unrle_cells(o) ==
    IF Len(o) < 2 THEN <<>>
    ELSE Rep(o[1], o[2]) \o unrle_cells(SubSeq(o, 3, Len(o)))

\* the cells of a layer payload under its mode, row-major
layer_cells(mode, data, w, h) ==
    IF mode = 0 THEN unrle_cells(data)
    ELSE IF mode = 1 THEN Flatten(expand_tiling(data, w, h))
    ELSE unpack_bits(data)

\* C29: for a level whose cells are all empty, build_level_data returns a map
\* section with tile_count 0, tile_blob_size 0, an empty tile blob and layers
\* that decode to all-empty grids
EmptyLevelBuilds ==
    (pc \in {"level_built", "level_error"} /\ AllCellsEmpty(map_data)) =>
        /\ level.err = ""
        /\ level.map_section[1] = 0
        /\ U16At(level.map_section, 11) = 0
        /\ level.tile_blob = <<>>
        /\ \A L1 \in 1..Len(map_data.map_grids) :
              layer_cells(level.layer_modes[L1], level.layer_data[L1],
                          map_data.map_w, map_data.map_h)
                = Rep(0, map_data.map_w * map_data.map_h)

\* the build of an all-empty level ends in the IndexError of
\* ext_nibble_rle_encode
EmptyLevelRaises ==
    /\ pc = "level_error"
    /\ AllCellsEmpty(map_data)
    /\ level.err = "IndexError"

-----------------------------------------------------------------------------
(* minify.py: remove_semicolons *)

\* longest Lua source enumerated, in characters
MaxSrc == 4

\* the characters of the enumerated sources: a semicolon, the two whitespace
\* characters blank and newline, an opening parenthesis, a letter
Semi == ";"
WhiteSpace == {" ", "\n"}
SrcChars == {Semi, "(", "a"} \cup WhiteSpace

\* number of whitespace characters from 1-based position p on: the greedy
\* match of \s*
ws_run(src, p) ==
    LET ends == {q \in p..(Len(src) + 1) :
                    /\ \A r \in p..(q - 1) : src[r] \in WhiteSpace
                    /\ q = Len(src) + 1 \/ src[q] \notin WhiteSpace}
    IN  (CHOOSE q \in ends : TRUE) - p

\* the negative lookahead (?!\() at position p
not_paren_at(src, p) == p > Len(src) \/ src[p] # "("

\* re.sub(r';(\s*)(?!\()', r'\1', src) from position i on: at a semicolon the
\* pattern takes the longest whitespace run after which the lookahead holds,
\* giving back whitespace one character at a time; a match is replaced by its
\* whitespace and the scan goes on after it; without a match the character is
\* copied
RECURSIVE sub_semicolons(_, _)
sub_semicolons(src, i) ==
    IF i > Len(src) THEN <<>>
    ELSE IF src[i] = Semi
    THEN LET k  == ws_run(src, i + 1)
             js == {j \in 0..k : not_paren_at(src, i + 1 + j)}
         IN  IF js = {} THEN <<src[i]>> \o sub_semicolons(src, i + 1)
             ELSE LET j == SetMax(js)
                  IN  SubSeq(src, i + 1, i + j) \o sub_semicolons(src, i + 1 + j)
    ELSE <<src[i]>> \o sub_semicolons(src, i + 1)

remove_semicolons(src) == sub_semicolons(src, 1)

InitMinify ==
    /\ pc = "lua_input"
    /\ lua_src \in SeqsUpTo(SrcChars, MaxSrc)
    /\ lua_out = <<>>
    /\ RleIdle /\ DeltaIdle /\ AnimIdle /\ LayerIdle /\ TileIdle /\ KeyIdle /\ CartIdle
    /\ PoolIdle

\* src = remove_semicolons(src)
RemoveSemicolons ==
    /\ pc = "lua_input"
    /\ lua_out' = remove_semicolons(lua_src)
    /\ pc' = "lua_stripped"
    /\ UNCHANGED <<lua_src, rleVars, deltaVars, animVars, layerVars, tileVars, keyVars,
                   cartVars, poolVars>>

SpecMinify == InitMinify /\ [][RemoveSemicolons]_vars

\* the semicolon at position i is followed, after optional whitespace, by "("
BeforeParen(src, i) ==
    \E q \in (i + 1)..Len(src) :
        /\ src[q] = "("
        /\ \A r \in (i + 1)..(q - 1) : src[r] \in WhiteSpace

\* the characters of src at the positions in keep, in order
Kept(src, keep) ==
    LET F[i \in 0..Len(src)] ==
            IF i = 0 THEN <<>>
            ELSE IF i \in keep THEN Append(F[i - 1], src[i]) ELSE F[i - 1]
    IN  F[Len(src)]

\* C30: remove_semicolons keeps every semicolon followed, after optional
\* whitespace, by "(", removes every other semicolon, and leaves all other
\* characters unchanged and in order
SemicolonKeptBeforeParen ==
    pc = "lua_stripped" =>
        lua_out = Kept(lua_src, {i \in 1..Len(lua_src) :
                                    lua_src[i] = Semi => BeforeParen(lua_src, i)})

\* what the code does: a semicolon is kept exactly when the next character is "("
SemicolonKeptRightBeforeParen ==
    pc = "lua_stripped" =>
        lua_out = Kept(lua_src, {i \in 1..Len(lua_src) :
                                    lua_src[i] = Semi =>
                                        (i < Len(lua_src) /\ lua_src[i + 1] = "(")})

\* a semicolon separated from "(" by whitespace is removed
SemicolonBeforeBlankParenRemoved ==
    /\ pc = "lua_stripped"
    /\ lua_src = <<"a", Semi, " ", "(">>
    /\ lua_out = <<"a", " ", "(">>

\* a semicolon right before "(" is kept and another one removed
SemicolonRightBeforeParenKept ==
    /\ pc = "lua_stripped"
    /\ lua_src = <<Semi, "a", Semi, "(">>
    /\ lua_out = <<"a", Semi, "(">>

====
